---------------------------- MODULE Spec2Model ----------------------------
(***************************************************************************)
(* SuperPang / SuperPigeon: the particle, ball, player and shot classes    *)
(* (src/unnamed/part_001), the settings (src/settings.js) and the game     *)
(* (src/game.js).                                                          *)
(*                                                                         *)
(* Numbers.  JavaScript numbers are modelled as exact fixed-point values:  *)
(* a length is an integer count of 1/Scale pixel, a time an integer count  *)
(* of 1/TimeScale millisecond.  Scale = 1250 makes Settings.GRAVITY        *)
(* (9.8 * 0.008 = 98/1250 pixel per frame^2) and the half pixel of         *)
(* PLAYER_WIDTH / 2 whole numbers; TimeScale = 3 makes 1000 / MAX_FPS      *)
(* whole.  Px(n) is n pixels, Ms(n) is n milliseconds.                     *)
(***************************************************************************)
EXTENDS Integers, Sequences, FiniteSets, TLC

Scale == 1250
TimeScale == 3
Px(n) == n * Scale
Ms(n) == n * TimeScale

\* JavaScript null / undefined (an id that was not passed).
NULL == -1

Abs(n) == IF n < 0 THEN -n ELSE n

(***************************************************************************)
(* Settings (src/settings.js)                                              *)
(***************************************************************************)
GAME_WIDTH == Px(1000)
GAME_HEIGHT == Px(600)
MAX_FPS == 30
PLAYER_LIVES == 3
PLAYER_WIDTH == Px(109)
PLAYER_HEIGHT == Px(85)
PLAYER_STEP == Px(4)
INITIAL_BALLS == 4
\* 9.8 * 0.008 pixel = 98/1250 pixel = 98 units
GRAVITY == (98 * 8 * Scale) \div 10000
MAX_SHOTS == 4
SHOT_SPEED == Px(6)
SHOT_WIDTH == Px(3)

(***************************************************************************)
(* Exact comparison of sqrt(dx^2 + dy^2) with r without leaving 32 bits:   *)
(* a square is kept as <<hi, lo>> = hi * Scale^2 + lo, 0 <= lo < Scale^2.  *)
(* It is only taken of numbers of at most MaxSq units.                     *)
(***************************************************************************)
Scale2 == Scale * Scale
MaxSq == 200 * Scale

Sq(a) ==
    LET h == a \div Scale
        l == a % Scale
        t == 2 * h * l * Scale + l * l
    IN  <<h * h + (t \div Scale2), t % Scale2>>

SumSq(a, b) ==
    LET p == Sq(a)
        q == Sq(b)
        lo == p[2] + q[2]
    IN  <<p[1] + q[1] + (lo \div Scale2), lo % Scale2>>

PairLess(p, q) == p[1] < q[1] \/ (p[1] = q[1] /\ p[2] < q[2])

\* Math.sqrt(dx^2 + dy^2) <= r, for r >= 0
DistanceLeq(dx, dy, r) ==
    /\ Abs(dx) <= r
    /\ Abs(dy) <= r
    /\ r <= MaxSq
    /\ ~PairLess(Sq(r), SumSq(Abs(dx), Abs(dy)))

\* Math.sqrt(dx^2 + dy^2) < r, for r >= 0
DistanceLess(dx, dy, r) ==
    /\ Abs(dx) < r
    /\ Abs(dy) < r
    /\ r <= MaxSq
    /\ PairLess(SumSq(Abs(dx), Abs(dy)), Sq(r))

(***************************************************************************)
(* class Particle                                                          *)
(***************************************************************************)
Particle(position, velocity, radius, mass, id) ==
    [position |-> position,
     previousPosition |-> position,
     velocity |-> velocity,
     previousVelocity |-> velocity,
     radius |-> radius,
     mass |-> mass,
     id |-> id]

\* move() without the test of the left wall
Particle_move_noLeftWall(this, containerWidth, containerHeight) ==
    IF containerWidth = NULL /\ containerHeight = NULL
    THEN [this EXCEPT !.previousPosition = this.position,
                      !.position = <<this.position[1] + this.velocity[1],
                                     this.position[2] + this.velocity[2]>>]
    ELSE
    LET p0 == [this EXCEPT !.position = <<this.position[1] + this.velocity[1],
                                          this.position[2] + this.velocity[2]>>]
        p1 == IF p0.position[1] + p0.radius >= containerWidth
              THEN [p0 EXCEPT !.position[1] = containerWidth - p0.radius - Px(1),
                              !.velocity[1] = -p0.velocity[1]]
              ELSE p0
        p3 == IF p1.position[2] + p1.radius >= containerHeight
              THEN [p1 EXCEPT !.position[2] = containerHeight - p1.radius - Px(1),
                              !.velocity[2] = -p1.previousVelocity[2]]
              ELSE p1
        p4 == IF p3.position[2] - p3.radius <= 0
              THEN [p3 EXCEPT !.position[2] = p3.radius + Px(1),
                              !.velocity[2] = -p3.previousVelocity[2]]
              ELSE p3
    IN  p4

\* move() that negates the velocity.y of the moment at the floor and the
\* ceiling
Particle_move_currentVy(this, containerWidth, containerHeight) ==
    IF containerWidth = NULL /\ containerHeight = NULL
    THEN [this EXCEPT !.previousPosition = this.position,
                      !.position = <<this.position[1] + this.velocity[1],
                                     this.position[2] + this.velocity[2]>>]
    ELSE
    LET p0 == [this EXCEPT !.position = <<this.position[1] + this.velocity[1],
                                          this.position[2] + this.velocity[2]>>]
        p1 == IF p0.position[1] + p0.radius >= containerWidth
              THEN [p0 EXCEPT !.position[1] = containerWidth - p0.radius - Px(1),
                              !.velocity[1] = -p0.velocity[1]]
              ELSE p0
        p2 == IF p1.position[1] - p1.radius <= 0
              THEN [p1 EXCEPT !.position[1] = p1.radius + Px(1),
                              !.velocity[1] = -p1.velocity[1]]
              ELSE p1
        p3 == IF p2.position[2] + p2.radius >= containerHeight
              THEN [p2 EXCEPT !.position[2] = containerHeight - p2.radius - Px(1),
                              !.velocity[2] = -p2.velocity[2]]
              ELSE p2
        p4 == IF p3.position[2] - p3.radius <= 0
              THEN [p3 EXCEPT !.position[2] = p3.radius + Px(1),
                              !.velocity[2] = -p3.velocity[2]]
              ELSE p3
    IN  p4

\* move(containerWidth, containerHeight): free motion when both are null,
\* else the four wall tests in source order
Particle_move(this, containerWidth, containerHeight) ==
    IF containerWidth = NULL /\ containerHeight = NULL
    THEN [this EXCEPT !.previousPosition = this.position,
                      !.position = <<this.position[1] + this.velocity[1],
                                     this.position[2] + this.velocity[2]>>]
    ELSE
    LET p0 == [this EXCEPT !.position = <<this.position[1] + this.velocity[1],
                                          this.position[2] + this.velocity[2]>>]
        p1 == IF p0.position[1] + p0.radius >= containerWidth
              THEN [p0 EXCEPT !.position[1] = containerWidth - p0.radius - Px(1),
                              !.velocity[1] = -p0.velocity[1]]
              ELSE p0
        p2 == IF p1.position[1] - p1.radius <= 0
              THEN [p1 EXCEPT !.position[1] = p1.radius + Px(1),
                              !.velocity[1] = -p1.velocity[1]]
              ELSE p1
        p3 == IF p2.position[2] + p2.radius >= containerHeight
              THEN [p2 EXCEPT !.position[2] = containerHeight - p2.radius - Px(1),
                              !.velocity[2] = -p2.previousVelocity[2]]
              ELSE p2
        p4 == IF p3.position[2] - p3.radius <= 0
              THEN [p3 EXCEPT !.position[2] = p3.radius + Px(1),
                              !.velocity[2] = -p3.previousVelocity[2]]
              ELSE p3
    IN  p4

Particle_gravity(this, g) ==
    [this EXCEPT !.previousVelocity[2] = this.velocity[2],
                 !.velocity[2] = this.velocity[2] + g]

\* colides() with distance <= the sum of the radii
Particle_colides_touching(particle1, particle2) ==
    DistanceLeq(particle1.position[1] - particle2.position[1],
                particle1.position[2] - particle2.position[2],
                particle1.radius + particle2.radius)

\* static colides(particle1, particle2)
Particle_colides(particle1, particle2) ==
    DistanceLess(particle1.position[1] - particle2.position[1],
                 particle1.position[2] - particle2.position[2],
                 particle1.radius + particle2.radius)

\* static colidesWithArray(particleToCheck, particles): the loop returns at the
\* first particle near enough
RECURSIVE Particle_colidesWithArray(_, _)
Particle_colidesWithArray(particleToCheck, particles) ==
    IF particles = <<>> THEN FALSE
    ELSE LET particle == Head(particles)
         IN  IF DistanceLess(particleToCheck.position[1] - particle.position[1],
                             particleToCheck.position[2] - particle.position[2],
                             particleToCheck.radius + particle.radius)
             THEN TRUE
             ELSE Particle_colidesWithArray(particleToCheck, Tail(particles))

(***************************************************************************)
(* The numbers of resolveCollision are quotients: they are kept exact, as  *)
(* fractions n / d in lowest terms with d > 0.                             *)
(***************************************************************************)
RECURSIVE Gcd(_, _)
Gcd(a, b) == IF b = 0 THEN a ELSE Gcd(b, a % b)

Q(n, d) ==
    LET g == Gcd(Abs(n), Abs(d))
        sign == IF d < 0 THEN -1 ELSE 1
    IN  [n |-> sign * (n \div g), d |-> sign * (d \div g)]

QInt(n) == [n |-> n, d |-> 1]
QMul(a, b) == Q(a.n * b.n, a.d * b.d)
QDiv(a, b) == Q(a.n * b.d, a.d * b.n)
QSub(a, b) ==
    LET l == (a.d \div Gcd(a.d, b.d)) * b.d
    IN  Q(a.n * (l \div a.d) - b.n * (l \div b.d), l)
QAdd(a, b) == QSub(a, [n |-> -b.n, d |-> b.d])

\* scalarProduct2D(vector1, vector2)
scalarProduct2D(vector1, vector2) == vector1[1] * vector2[1] + vector1[2] * vector2[2]

\* resolveCollision() with each particle's own mass in its update
Particle_resolveCollision_ownMass(particle1, particle2) ==
    LET position1 == particle1.previousPosition
        position2 == particle2.previousPosition
        d12 == <<position1[1] - position2[1], position1[2] - position2[2]>>
        d21 == <<position2[1] - position1[1], position2[2] - position1[2]>>
        v12 == <<particle1.velocity[1] - particle2.velocity[1],
                 particle1.velocity[2] - particle2.velocity[2]>>
        v21 == <<particle2.velocity[1] - particle1.velocity[1],
                 particle2.velocity[2] - particle1.velocity[2]>>
        coefficient1 == QDiv(QInt(scalarProduct2D(v12, d12)), QInt(scalarProduct2D(d12, d12)))
        coefficient2 == QDiv(QInt(scalarProduct2D(v21, d21)), QInt(scalarProduct2D(d21, d21)))
        sum == QInt(particle1.mass + particle2.mass)
        Less(v, coefficient, d, mass) ==
            QSub(QInt(v), QDiv(QMul(QMul(coefficient, QInt(d)), QInt(2 * mass)), sum))
    IN  <<[particle1 EXCEPT
              !.position = position1,
              !.velocity = <<Less(particle1.velocity[1], coefficient1, d12[1], particle1.mass),
                             Less(particle1.velocity[2], coefficient1, d12[2], particle1.mass)>>],
          [particle2 EXCEPT
              !.position = position2,
              !.velocity = <<Less(particle2.velocity[1], coefficient2, d21[1], particle2.mass),
                             Less(particle2.velocity[2], coefficient2, d21[2], particle2.mass)>>]>>

\* static resolveCollision(particle1, particle2): the two particles after the
\* call, their velocities as fractions.  The previous positions are distinct.
Particle_resolveCollision(particle1, particle2) ==
    LET position1 == particle1.previousPosition
        position2 == particle2.previousPosition
        d12 == <<position1[1] - position2[1], position1[2] - position2[2]>>
        d21 == <<position2[1] - position1[1], position2[2] - position1[2]>>
        v12 == <<particle1.velocity[1] - particle2.velocity[1],
                 particle1.velocity[2] - particle2.velocity[2]>>
        v21 == <<particle2.velocity[1] - particle1.velocity[1],
                 particle2.velocity[2] - particle1.velocity[2]>>
        coefficient1 == QDiv(QInt(scalarProduct2D(v12, d12)), QInt(scalarProduct2D(d12, d12)))
        coefficient2 == QDiv(QInt(scalarProduct2D(v21, d21)), QInt(scalarProduct2D(d21, d21)))
        sum == QInt(particle1.mass + particle2.mass)
        Less(v, coefficient, d, mass) ==
            QSub(QInt(v), QDiv(QMul(QMul(coefficient, QInt(d)), QInt(2 * mass)), sum))
    IN  <<[particle1 EXCEPT
              !.position = position1,
              !.velocity = <<Less(particle1.velocity[1], coefficient1, d12[1], particle2.mass),
                             Less(particle1.velocity[2], coefficient1, d12[2], particle2.mass)>>],
          [particle2 EXCEPT
              !.position = position2,
              !.velocity = <<Less(particle2.velocity[1], coefficient2, d21[1], particle1.mass),
                             Less(particle2.velocity[2], coefficient2, d21[2], particle1.mass)>>]>>

(***************************************************************************)
(* class BallSuperPang extends Particle                                    *)
(*                                                                         *)
(* The size argument is any JavaScript value: a whole number               *)
(* [kind |-> "int", val |-> n], another number (kind "frac", val the       *)
(* number of halves) or a missing argument (kind "undefined").  The        *)
(* switch compares with ===, so only the whole numbers 1, 2, 3 match.      *)
(***************************************************************************)
Int_(n) == [kind |-> "int", val |-> n]
Undefined == [kind |-> "undefined", val |-> 0]
Frac(halves) == [kind |-> "frac", val |-> halves]

SizeIs(size, n) == size.kind = "int" /\ size.val = n

\* The constructor without the normalisation of the size
BallSuperPang_keepsSize(position, velocity, size, id) ==
    LET radius == CASE SizeIs(size, 1) -> Px(10)
                    [] SizeIs(size, 2) -> Px(20)
                    [] SizeIs(size, 3) -> Px(40)
                    [] OTHER -> Px(70)
    IN  [position |-> position,
         previousPosition |-> position,
         velocity |-> velocity,
         previousVelocity |-> velocity,
         radius |-> radius,
         mass |-> 1,
         id |-> id,
         size |-> size.val]

BallSuperPang(position, velocity, size, id) ==
    LET radius == CASE SizeIs(size, 1) -> Px(10)
                    [] SizeIs(size, 2) -> Px(20)
                    [] SizeIs(size, 3) -> Px(40)
                    [] OTHER -> Px(70)
        size_ == IF SizeIs(size, 1) \/ SizeIs(size, 2) \/ SizeIs(size, 3)
                 THEN size.val
                 ELSE 4
    IN  [position |-> position,
         previousPosition |-> position,
         velocity |-> velocity,
         previousVelocity |-> velocity,
         radius |-> radius,
         mass |-> 1,
         id |-> id,
         size |-> size_]

\* break() with the children keeping the vertical velocity of the ball
BallSuperPang_break_keepsVy(this) ==
    IF this.size > 1
    THEN <<BallSuperPang(<<this.position[1] - this.radius, this.position[2] + this.radius>>,
                         <<-Abs(this.velocity[1]), this.velocity[2]>>,
                         Int_(this.size - 1), NULL),
           BallSuperPang(<<this.position[1] + this.radius, this.position[2] + this.radius>>,
                         <<Abs(this.velocity[1]), this.velocity[2]>>,
                         Int_(this.size - 1), NULL)>>
    ELSE <<>>

\* break() that gives no balls for a ball of size 2
BallSuperPang_break_fromSize3(this) ==
    IF this.size > 2
    THEN <<BallSuperPang(<<this.position[1] - this.radius, this.position[2] + this.radius>>,
                         <<-Abs(this.velocity[1]), -Abs(this.velocity[2])>>,
                         Int_(this.size - 1), NULL),
           BallSuperPang(<<this.position[1] + this.radius, this.position[2] + this.radius>>,
                         <<Abs(this.velocity[1]), -Abs(this.velocity[2])>>,
                         Int_(this.size - 1), NULL)>>
    ELSE <<>>

\* break() with the two balls made above the ball
BallSuperPang_break_above(this) ==
    IF this.size > 1
    THEN <<BallSuperPang(<<this.position[1] - this.radius, this.position[2] - this.radius>>,
                         <<-Abs(this.velocity[1]), -Abs(this.velocity[2])>>,
                         Int_(this.size - 1), NULL),
           BallSuperPang(<<this.position[1] + this.radius, this.position[2] - this.radius>>,
                         <<Abs(this.velocity[1]), -Abs(this.velocity[2])>>,
                         Int_(this.size - 1), NULL)>>
    ELSE <<>>

\* break() that makes the two balls of the size of the ball
BallSuperPang_break_sameSize(this) ==
    IF this.size > 1
    THEN <<BallSuperPang(<<this.position[1] - this.radius, this.position[2] + this.radius>>,
                         <<-Abs(this.velocity[1]), -Abs(this.velocity[2])>>,
                         Int_(this.size), NULL),
           BallSuperPang(<<this.position[1] + this.radius, this.position[2] + this.radius>>,
                         <<Abs(this.velocity[1]), -Abs(this.velocity[2])>>,
                         Int_(this.size), NULL)>>
    ELSE <<>>

\* break(): the two smaller balls, or <<>> for null
BallSuperPang_break(this) ==
    IF this.size > 1
    THEN <<BallSuperPang(<<this.position[1] - this.radius, this.position[2] + this.radius>>,
                         <<-Abs(this.velocity[1]), -Abs(this.velocity[2])>>,
                         Int_(this.size - 1), NULL),
           BallSuperPang(<<this.position[1] + this.radius, this.position[2] + this.radius>>,
                         <<Abs(this.velocity[1]), -Abs(this.velocity[2])>>,
                         Int_(this.size - 1), NULL)>>
    ELSE <<>>

(***************************************************************************)
(* class PlayerCharacter                                                   *)
(***************************************************************************)
PlayerCharacter(position, id, width, height) ==
    [position |-> position, id |-> id, width |-> width, height |-> height]

\* moveRight() without the test of the right wall
PlayerCharacter_moveRight_free(this, containerWidth, step) ==
    [this EXCEPT !.position[1] = this.position[1] + step]

PlayerCharacter_moveRight(this, containerWidth, step) ==
    IF containerWidth = NULL
    THEN [this EXCEPT !.position[1] = this.position[1] + step]
    ELSE IF this.position[1] + step + this.width >= containerWidth
         THEN [this EXCEPT !.position[1] = containerWidth - this.width]
         ELSE [this EXCEPT !.position[1] = this.position[1] + step]

PlayerCharacter_moveLeft(this, containerWidth, step) ==
    IF containerWidth = NULL
    THEN [this EXCEPT !.position[1] = this.position[1] - step]
    ELSE IF this.position[1] - step <= 0
         THEN [this EXCEPT !.position[1] = 0]
         ELSE [this EXCEPT !.position[1] = this.position[1] - step]

\* The point of the rectangle this.position, width, height nearest to c
NearestPoint(this, c) ==
    <<IF c[1] < this.position[1] THEN this.position[1]
      ELSE IF c[1] > this.position[1] + this.width THEN this.position[1] + this.width
      ELSE c[1],
      IF c[2] < this.position[2] THEN this.position[2]
      ELSE IF c[2] > this.position[2] + this.height THEN this.position[2] + this.height
      ELSE c[2]>>

\* colidesWithBall() with distance < radius
PlayerCharacter_colidesWithBall_strict(this, ball) ==
    LET point == NearestPoint(this, ball.position)
    IN  DistanceLess(ball.position[1] - point[1], ball.position[2] - point[2], ball.radius)

PlayerCharacter_colidesWithBall(this, ball) ==
    LET point == NearestPoint(this, ball.position)
    IN  DistanceLeq(ball.position[1] - point[1], ball.position[2] - point[2], ball.radius)

(***************************************************************************)
(* class Shot                                                              *)
(***************************************************************************)
Shot(position, speed, width, id) ==
    [position |-> position, width |-> width, height |-> 0, speed |-> speed, id |-> id]

\* propagateOrRemove() that still propagates a shot at y = 0
Shot_propagateOrRemove_atTop(this) ==
    IF this.position[2] >= 0
    THEN [shot |-> [this EXCEPT !.height = this.height + this.speed,
                                !.position[2] = this.position[2] - this.speed],
          ret |-> FALSE]
    ELSE [shot |-> this, ret |-> TRUE]

\* propagateOrRemove() that moves the shot up without growing it
Shot_propagateOrRemove_keepsHeight(this) ==
    IF this.position[2] > 0
    THEN [shot |-> [this EXCEPT !.position[2] = this.position[2] - this.speed],
          ret |-> FALSE]
    ELSE [shot |-> this, ret |-> TRUE]

\* propagateOrRemove(): the shot after the call and the value returned
Shot_propagateOrRemove(this) ==
    IF this.position[2] > 0
    THEN [shot |-> [this EXCEPT !.height = this.height + this.speed,
                                !.position[2] = this.position[2] - this.speed],
          ret |-> FALSE]
    ELSE [shot |-> this, ret |-> TRUE]

\* colidesWithBall() that takes the height of the ball for the nearest point
Shot_colidesWithBall_sameHeight(this, ball) ==
    LET point == NearestPoint(this, ball.position)
    IN  DistanceLeq(ball.position[1] - point[1], 0, ball.radius)

Shot_colidesWithBall(this, ball) ==
    LET point == NearestPoint(this, ball.position)
    IN  DistanceLeq(ball.position[1] - point[1], ball.position[2] - point[2], ball.radius)

(***************************************************************************)
(* controllers.js is not among the sources: the controllers wrap a model   *)
(* object and its view.  What game.js calls on them is modelled from       *)
(* spec.md (sections 4.3 to 4.6).                                          *)
(***************************************************************************)
\* BallController.move(): gravity, then the bounded move against the arena
BallController_move(ball) ==
    Particle_move(Particle_gravity(ball, GRAVITY), GAME_WIDTH, GAME_HEIGHT)

\* BallController.breakBall(nextID): break(), the children taking the ids
\* nextID and nextID + 1
BallController_breakBall(ball, id) ==
    LET newBalls == BallSuperPang_break(ball)
    IN  IF newBalls = <<>>
        THEN <<>>
        ELSE <<[newBalls[1] EXCEPT !.id = id], [newBalls[2] EXCEPT !.id = id + 1]>>

\* ShotController.colidesWithAnyBall(balls): the index (from 0) of the first
\* ball the shot collides with, or -1
ShotController_colidesWithAnyBall(shot, balls) ==
    LET hit == {j \in 1..Len(balls) : Shot_colidesWithBall(shot, balls[j])}
    IN  IF hit = {} THEN -1
        ELSE (CHOOSE j \in hit : \A k \in hit : j <= k) - 1

\* PlayerCharacterController.colidesWithAnyBall(balls)
PlayerCharacterController_colidesWithAnyBall(player, balls) ==
    \E j \in 1..Len(balls) : PlayerCharacter_colidesWithBall(player, balls[j])

PlayerCharacterController_moveLeft(player, step) ==
    PlayerCharacter_moveLeft(player, GAME_WIDTH, step)

PlayerCharacterController_moveRight(player, step) ==
    PlayerCharacter_moveRight(player, GAME_WIDTH, step)

\* PlayerCharacterController.moveTo(x, step): one step of at most `step`
\* towards x inside the arena; hasMoved tells whether the player moved
PlayerCharacterController_moveTo(player, x, step) ==
    LET d == x - player.position[1]
        moved == IF d > 0
                 THEN PlayerCharacter_moveRight(player, GAME_WIDTH, IF d < step THEN d ELSE step)
                 ELSE IF d < 0
                 THEN PlayerCharacter_moveLeft(player, GAME_WIDTH, IF -d < step THEN -d ELSE step)
                 ELSE player
    IN  [player |-> moved, hasMoved |-> moved.position # player.position]

(***************************************************************************)
(* class SuperPigeon (src/game.js): the state                              *)
(***************************************************************************)
VARIABLES
    screen,                 \* what the svg shows: "menu", "game", "victory", "defeat"
    pendingFrames,          \* requestAnimationFrame callbacks not yet run
    keyboardListeners,      \* keydown/keyup listener pairs registered on window
    mouseListeners,         \* mousemove/mousedown listener pairs registered on the svg
    clock,                  \* Date.now()
    invulnerabilityTime,    \* Settings.INVULNERABILITY_TIME
    playerLives,
    moveLeft,
    moveRight,
    mousePositionX,
    controlledByKeyboard,
    controlledByMouse,
    then,
    lastHit,
    timeSinceLastHit,
    blink,
    nextID,
    playerCharacter,
    balls,
    shots,
    frames,                 \* mainGameLoop calls of this game
    played,                 \* mainGameLoop calls of the games before it
    oddDelays,              \* those that came after a delay of OddDelays
    last                    \* history: the last operation, its inputs and results

gameVars == <<playerLives, moveLeft, moveRight, mousePositionX, controlledByKeyboard,
              controlledByMouse, then, lastHit, timeSinceLastHit, blink, nextID,
              playerCharacter, balls, shots>>
hostVars == <<screen, pendingFrames, keyboardListeners, mouseListeners, clock,
              invulnerabilityTime>>
vars == <<hostVars, gameVars, frames, played, oddDelays, last>>

fpsInterval == Ms(1000) \div MAX_FPS

(***************************************************************************)
(* Bounds of the model and the inputs it draws                             *)
(***************************************************************************)
MaxFrames == 88         \* mainGameLoop calls
MaxID == 10             \* ids handed out
MaxOddDelays == 2       \* frames that do not come after RegularDelay

\* Date.now() when the page is loaded, and the time between two frames: a
\* display refresh, two of them, a pause of the page
StartTime == Ms(100000)
RegularDelay == Ms(34)
OddDelays == {Ms(17), Ms(2001)}

\* e.offsetX of a mousemove
MouseXs == {Px(0), Px(300)}

(***************************************************************************)
(* Math.random(): the draws of createBalls.  A value of Math.random() is   *)
(* k / RandomSteps for a k of Randoms: 0 and the values below 1.           *)
(* A draw is <<x, y, vx, vy>>, x in [200, 800), y in [50, 300),            *)
(* vx in (-5, 5), vy in (-2.5, -1].                                        *)
(***************************************************************************)
RandomSteps == 8
Randoms == 0..(RandomSteps - 1)

\* randomInteger() that can give max
randomInteger_upToMax(min, max, random) ==
    ((random * (max - min + 1)) \div RandomSteps) + min

\* randomInteger(min, max) = Math.floor(Math.random() * (max - min) + min),
\* for whole min <= max and Math.random() = random / RandomSteps
randomInteger(min, max, random) ==
    ((random * (max - min)) \div RandomSteps) + min

NearDraw == <<Px(200), Px(299), -Px(2), -Px(1)>>
FarDraw == <<Px(700), Px(60), Px(3), -Px(2)>>

BallDraws ==
    {[i \in 1..INITIAL_BALLS |-> [at |-> NearDraw, size |-> 1]],
     [i \in 1..INITIAL_BALLS |-> [at |-> NearDraw, size |-> IF i = 1 THEN 3 ELSE 1]],
     [i \in 1..INITIAL_BALLS |-> [at |-> IF i = 2 THEN NearDraw ELSE FarDraw,
                                  size |-> IF i = 2 THEN 2 ELSE 3]]}

\* createBalls() without the increment of nextID
createBalls_sameId(quantity, draws, id) ==
    [i \in 1..quantity |->
        BallSuperPang(<<draws[i].at[1], draws[i].at[2]>>,
                      <<draws[i].at[3], draws[i].at[4]>>,
                      Int_(draws[i].size), id)]

\* createBalls(quantity), the draws given; the ids are nextID, nextID + 1, ...
createBalls(quantity, draws, id) ==
    [i \in 1..quantity |->
        BallSuperPang(<<draws[i].at[1], draws[i].at[2]>>,
                      <<draws[i].at[3], draws[i].at[4]>>,
                      Int_(draws[i].size), id + i - 1)]

(***************************************************************************)
(* The steps of mainGameLoop                                               *)
(***************************************************************************)
RemoveAt(s, i) == [k \in 1..(Len(s) - 1) |-> IF k < i THEN s[k] ELSE s[k + 1]]

Truthy(n) == n # NULL /\ n # 0

\* lines 235-247: move the character
MoveCharacter(player, left, right, mouseX) ==
    LET p1 == IF left THEN PlayerCharacterController_moveLeft(player, PLAYER_STEP) ELSE player
        p2 == IF right THEN PlayerCharacterController_moveRight(p1, PLAYER_STEP) ELSE p1
        p3 == IF Truthy(mouseX)
              THEN PlayerCharacterController_moveTo(p2, mouseX - (PLAYER_WIDTH \div 2),
                                                    PLAYER_STEP).player
              ELSE p2
    IN  p3

\* the propagation step that stays on the index after a removal
RECURSIVE PropagateShots_noSkip(_, _)
PropagateShots_noSkip(s, i) ==
    IF i > Len(s) THEN s
    ELSE LET r == Shot_propagateOrRemove(s[i])
         IN  IF r.ret
             THEN PropagateShots_noSkip(RemoveAt(s, i), i)
             ELSE PropagateShots_noSkip([s EXCEPT ![i] = r.shot], i + 1)

\* lines 250-255: for (i = 0; i < shots.length; i++) propagateOrRemove, splice.
\* i counts from 1 here.
RECURSIVE PropagateShots(_, _)
PropagateShots(s, i) ==
    IF i > Len(s) THEN s
    ELSE LET r == Shot_propagateOrRemove(s[i])
         IN  IF r.ret
             THEN PropagateShots(RemoveAt(s, i), i + 1)
             ELSE PropagateShots([s EXCEPT ![i] = r.shot], i + 1)

\* lines 258-260
MoveBalls(b) == [j \in 1..Len(b) |-> BallController_move(b[j])]

\* the collision step taking one id for the two balls of a break
RECURSIVE CollideShots_oneID(_, _)
CollideShots_oneID(st, i) ==
    IF i > Len(st.shots) THEN st
    ELSE LET ballToDelete == ShotController_colidesWithAnyBall(st.shots[i], st.balls)
         IN  IF ballToDelete >= 0
             THEN LET newBalls == BallController_breakBall(st.balls[ballToDelete + 1], st.nextID)
                      rest == RemoveAt(st.balls, ballToDelete + 1)
                  IN  CollideShots_oneID(
                        [shots |-> RemoveAt(st.shots, i),
                         balls |-> IF newBalls # <<>> THEN rest \o newBalls ELSE rest,
                         nextID |-> IF newBalls # <<>> THEN st.nextID + 1 ELSE st.nextID,
                         hits |-> Append(st.hits, [shot |-> st.shots[i].id,
                                                   ball |-> st.balls[ballToDelete + 1].id,
                                                   size |-> st.balls[ballToDelete + 1].size]),
                         tested |-> Append(st.tested, st.shots[i].id)],
                        i + 1)
             ELSE CollideShots_oneID([st EXCEPT !.tested = Append(st.tested, st.shots[i].id)], i + 1)

\* the collision step without the removal of the shot that hit
RECURSIVE CollideShots_keepsShot(_, _)
CollideShots_keepsShot(st, i) ==
    IF i > Len(st.shots) THEN st
    ELSE LET ballToDelete == ShotController_colidesWithAnyBall(st.shots[i], st.balls)
         IN  IF ballToDelete >= 0
             THEN LET newBalls == BallController_breakBall(st.balls[ballToDelete + 1], st.nextID)
                      rest == RemoveAt(st.balls, ballToDelete + 1)
                  IN  CollideShots_keepsShot(
                        [shots |-> st.shots,
                         balls |-> IF newBalls # <<>> THEN rest \o newBalls ELSE rest,
                         nextID |-> IF newBalls # <<>> THEN st.nextID + 2 ELSE st.nextID,
                         hits |-> Append(st.hits, [shot |-> st.shots[i].id,
                                                   ball |-> st.balls[ballToDelete + 1].id,
                                                   size |-> st.balls[ballToDelete + 1].size]),
                         tested |-> Append(st.tested, st.shots[i].id)],
                        i + 1)
             ELSE CollideShots_keepsShot([st EXCEPT !.tested = Append(st.tested, st.shots[i].id)], i + 1)

\* lines 263-276: for (i = 0; i < shots.length; i++) the shot against the balls.
\* st is [shots, balls, nextID, hits, tested]; hits lists the balls that were
\* hit and tested the ids of the shots that colidesWithAnyBall was called on.
RECURSIVE CollideShots(_, _)
CollideShots(st, i) ==
    IF i > Len(st.shots) THEN st
    ELSE LET ballToDelete == ShotController_colidesWithAnyBall(st.shots[i], st.balls)
         IN  IF ballToDelete >= 0
             THEN LET newBalls == BallController_breakBall(st.balls[ballToDelete + 1], st.nextID)
                      rest == RemoveAt(st.balls, ballToDelete + 1)
                  IN  CollideShots(
                        [shots |-> RemoveAt(st.shots, i),
                         balls |-> IF newBalls # <<>> THEN rest \o newBalls ELSE rest,
                         nextID |-> IF newBalls # <<>> THEN st.nextID + 2 ELSE st.nextID,
                         hits |-> Append(st.hits, [shot |-> st.shots[i].id,
                                                   ball |-> st.balls[ballToDelete + 1].id,
                                                   size |-> st.balls[ballToDelete + 1].size]),
                         tested |-> Append(st.tested, st.shots[i].id)],
                        i + 1)
             ELSE CollideShots([st EXCEPT !.tested = Append(st.tested, st.shots[i].id)], i + 1)

(***************************************************************************)
(* constructor: the main menu is painted, nothing is scheduled             *)
(***************************************************************************)
Constructed ==
    /\ screen = "menu"
    /\ pendingFrames = 0
    /\ keyboardListeners = 0
    /\ mouseListeners = 0
    /\ clock = StartTime
    /\ playerLives = 0
    /\ moveLeft = FALSE
    /\ moveRight = FALSE
    /\ mousePositionX = NULL
    /\ controlledByKeyboard = TRUE
    /\ controlledByMouse = FALSE
    /\ then = StartTime
    /\ lastHit = 0
    /\ timeSinceLastHit = invulnerabilityTime
    /\ blink = TRUE
    /\ nextID = 0
    /\ playerCharacter = NULL
    /\ balls = <<>>
    /\ shots = <<>>
    /\ frames = 0
    /\ played = 0
    /\ oddDelays = 0
    /\ last = [op |-> "constructor"]

Init ==
    /\ invulnerabilityTime = Ms(2000)
    /\ Constructed

(***************************************************************************)
(* startMainGame, from the new game button of the menu or of an end screen *)
(***************************************************************************)
\* startMainGame without the reset of lastHit
startMainGame_keepsLastHit ==
    /\ screen \in {"menu", "victory", "defeat"}
    /\ nextID + INITIAL_BALLS <= MaxID
    /\ \E draws \in BallDraws :
          balls' = createBalls(INITIAL_BALLS, draws, nextID)
    /\ IF controlledByKeyboard
       THEN keyboardListeners' = keyboardListeners + 1 /\ UNCHANGED mouseListeners
       ELSE mouseListeners' = mouseListeners + 1 /\ UNCHANGED keyboardListeners
    /\ screen' = "game"
    /\ playerCharacter' = PlayerCharacter(<<Px(50), GAME_HEIGHT - PLAYER_HEIGHT>>, "player",
                                          PLAYER_WIDTH, PLAYER_HEIGHT)
    /\ playerLives' = PLAYER_LIVES
    /\ nextID' = nextID + INITIAL_BALLS
    /\ shots' = <<>>
    /\ pendingFrames' = pendingFrames + 1
    /\ frames' = 0
    /\ played' = played + frames
    /\ last' = [op |-> "startMainGame"]
    /\ UNCHANGED <<clock, invulnerabilityTime, moveLeft, moveRight, mousePositionX,
                   controlledByKeyboard, controlledByMouse, then, timeSinceLastHit, blink,
                   lastHit, oddDelays>>

startMainGame ==
    /\ screen \in {"menu", "victory", "defeat"}
    /\ nextID + INITIAL_BALLS <= MaxID
    /\ \E draws \in BallDraws :
          balls' = createBalls(INITIAL_BALLS, draws, nextID)
    /\ IF controlledByKeyboard
       THEN keyboardListeners' = keyboardListeners + 1 /\ UNCHANGED mouseListeners
       ELSE mouseListeners' = mouseListeners + 1 /\ UNCHANGED keyboardListeners
    /\ screen' = "game"
    /\ playerCharacter' = PlayerCharacter(<<Px(50), GAME_HEIGHT - PLAYER_HEIGHT>>, "player",
                                          PLAYER_WIDTH, PLAYER_HEIGHT)
    /\ playerLives' = PLAYER_LIVES
    /\ nextID' = nextID + INITIAL_BALLS
    /\ shots' = <<>>
    /\ lastHit' = 0
    /\ pendingFrames' = pendingFrames + 1
    /\ frames' = 0
    /\ played' = played + frames
    /\ last' = [op |-> "startMainGame"]
    /\ UNCHANGED <<clock, invulnerabilityTime, moveLeft, moveRight, mousePositionX,
                   controlledByKeyboard, controlledByMouse, then, timeSinceLastHit, blink,
                   oddDelays>>

\* the change controls button of the menu
changeControls ==
    /\ screen = "menu"
    /\ IF controlledByKeyboard
       THEN controlledByKeyboard' = FALSE /\ controlledByMouse' = TRUE
       ELSE IF controlledByMouse
       THEN controlledByMouse' = FALSE /\ controlledByKeyboard' = TRUE
       ELSE UNCHANGED <<controlledByKeyboard, controlledByMouse>>
    /\ last' = [op |-> "changeControls"]
    /\ UNCHANGED <<hostVars, playerLives, moveLeft, moveRight, mousePositionX, then, lastHit,
                   timeSinceLastHit, blink, nextID, playerCharacter, balls, shots,
                   frames, played, oddDelays>>

\* the main menu button of an end screen: paintMainMenu
paintMainMenu ==
    /\ screen \in {"victory", "defeat"}
    /\ screen' = "menu"
    /\ controlledByKeyboard' = TRUE
    /\ last' = [op |-> "paintMainMenu"]
    /\ UNCHANGED <<pendingFrames, keyboardListeners, mouseListeners, clock,
                   invulnerabilityTime, playerLives, moveLeft, moveRight, mousePositionX,
                   controlledByMouse, then, lastHit, timeSinceLastHit, blink, nextID,
                   playerCharacter, balls, shots, frames, played, oddDelays>>

(***************************************************************************)
(* The control listeners.  An event runs every listener registered for it. *)
(***************************************************************************)
\* The user presses keys and buttons on the menu, on an end screen and when a
\* game has just started; while the frames of a game run the user holds what
\* is held and fires no more.
UserActs == screen # "game" \/ frames = 0

NewShot(player, id) ==
    Shot(<<player.position[1] + (player.width \div 2), player.position[2] + player.height>>,
         SHOT_SPEED, SHOT_WIDTH, id)

\* the listener without the test of shots.length
RECURSIVE Fire_unguarded(_, _)
Fire_unguarded(st, n) ==
    IF n = 0 THEN st
    ELSE Fire_unguarded([shots |-> Append(st.shots, NewShot(playerCharacter, st.nextID)),
                         nextID |-> st.nextID + 1],
                        n - 1)

\* the shot part of one listener, run by n listeners in turn; st is [shots, nextID]
RECURSIVE Fire(_, _)
Fire(st, n) ==
    IF n = 0 THEN st
    ELSE Fire(IF Len(st.shots) < MAX_SHOTS
              THEN [shots |-> Append(st.shots, NewShot(playerCharacter, st.nextID)),
                    nextID |-> st.nextID + 1]
              ELSE st,
              n - 1)

keydown(key) ==
    /\ keyboardListeners > 0
    /\ UserActs
    /\ moveRight' = IF key = "ArrowRight" THEN TRUE ELSE moveRight
    /\ moveLeft' = IF key = "ArrowLeft" THEN TRUE ELSE moveLeft
    /\ LET st == Fire([shots |-> shots, nextID |-> nextID],
                      IF key = " " THEN keyboardListeners ELSE 0)
       IN  /\ st.nextID <= MaxID
           /\ shots' = st.shots
           /\ nextID' = st.nextID
    /\ last' = [op |-> "keydown", key |-> key, shotsBefore |-> Len(shots)]
    /\ UNCHANGED <<hostVars, playerLives, mousePositionX, controlledByKeyboard,
                   controlledByMouse, then, lastHit, timeSinceLastHit, blink,
                   playerCharacter, balls, frames, played, oddDelays>>

keyup(key) ==
    /\ keyboardListeners > 0
    /\ UserActs
    /\ moveRight' = IF key = "ArrowRight" THEN FALSE ELSE moveRight
    /\ moveLeft' = IF key = "ArrowLeft" THEN FALSE ELSE moveLeft
    /\ last' = [op |-> "keyup", key |-> key]
    /\ UNCHANGED <<hostVars, playerLives, mousePositionX, controlledByKeyboard,
                   controlledByMouse, then, lastHit, timeSinceLastHit, blink, nextID,
                   playerCharacter, balls, shots, frames, played, oddDelays>>

mousemove(offsetX) ==
    /\ mouseListeners > 0
    /\ UserActs
    /\ mousePositionX' = offsetX
    /\ last' = [op |-> "mousemove", offsetX |-> offsetX]
    /\ UNCHANGED <<hostVars, playerLives, moveLeft, moveRight, controlledByKeyboard,
                   controlledByMouse, then, lastHit, timeSinceLastHit, blink, nextID,
                   playerCharacter, balls, shots, frames, played, oddDelays>>

mousedown(button) ==
    /\ mouseListeners > 0
    /\ UserActs
    /\ LET st == Fire([shots |-> shots, nextID |-> nextID],
                      IF button = 0 THEN mouseListeners ELSE 0)
       IN  /\ st.nextID <= MaxID
           /\ shots' = st.shots
           /\ nextID' = st.nextID
    /\ last' = [op |-> "mousedown", button |-> button, shotsBefore |-> Len(shots)]
    /\ UNCHANGED <<hostVars, playerLives, moveLeft, moveRight, mousePositionX,
                   controlledByKeyboard, controlledByMouse, then, lastHit,
                   timeSinceLastHit, blink, playerCharacter, balls, frames, played, oddDelays>>

(***************************************************************************)
(* mainGameLoop: one requestAnimationFrame callback.  now is Date.now() at *)
(* its start; Date.now() read again at line 299, in the same callback, is  *)
(* taken to give the same millisecond.                                     *)
(***************************************************************************)
\* lines 283-294
Blink(b, sinceLastHit) ==
    IF sinceLastHit < invulnerabilityTime THEN ~b
    ELSE IF b THEN FALSE ELSE b

\* line 296 with the comparison turned round
LosesLife_insideWindow(playerHit, sinceLastHit) == playerHit /\ sinceLastHit < Ms(2000)

\* line 296 without the test of playerHit
LosesLife_withoutHit(playerHit, sinceLastHit) == sinceLastHit > Ms(2000)

\* line 296
LosesLife(playerHit, sinceLastHit) == playerHit /\ sinceLastHit > Ms(2000)

\* the end of the frame without the test of balls.length
EndOfFrame_ignoresBalls(lives, nBalls) ==
    IF lives # 0 THEN "frame"
    ELSE "defeat"

\* the end of the frame without the test of playerLives
EndOfFrame_ignoresLives(lives, nBalls) ==
    IF nBalls # 0 THEN "frame"
    ELSE "victory"

\* lines 306-312: "frame" for the next frame, or the end screen
EndOfFrame(lives, nBalls) ==
    IF lives # 0 /\ nBalls # 0 THEN "frame"
    ELSE IF lives = 0 THEN "defeat"
    ELSE "victory"

Update(now) ==
    LET elapsed == now - then
        player == MoveCharacter(playerCharacter, moveLeft, moveRight, mousePositionX)
        propagated == PropagateShots(shots, 1)
        moved == MoveBalls(balls)
        st == CollideShots([shots |-> propagated, balls |-> moved, nextID |-> nextID,
                            hits |-> <<>>, tested |-> <<>>], 1)
        playerHit == PlayerCharacterController_colidesWithAnyBall(player, st.balls)
        sinceLastHit == now - lastHit
        losesLife == LosesLife(playerHit, sinceLastHit)
    IN  /\ then' = now - (elapsed % fpsInterval)
        /\ playerCharacter' = player
        /\ shots' = st.shots
        /\ balls' = st.balls
        /\ nextID' = st.nextID
        /\ blink' = Blink(blink, sinceLastHit)
        /\ playerLives' = IF losesLife THEN playerLives - 1 ELSE playerLives
        /\ lastHit' = IF losesLife THEN now ELSE lastHit
        /\ timeSinceLastHit' = IF losesLife THEN 0 ELSE sinceLastHit
        /\ clock' = now
        /\ last' = [op |-> "mainGameLoop", updated |-> TRUE, now |-> now,
                    nShots |-> Len(propagated), nBalls |-> Len(balls), nextID |-> nextID,
                    hits |-> st.hits, tested |-> st.tested, playerHit |-> playerHit,
                    lastHit |-> lastHit,
                    lives |-> playerLives,
                    ballIds |-> [j \in 1..Len(balls) |-> balls[j].id]]

NoUpdate(now) ==
    /\ clock' = now
    /\ last' = [op |-> "mainGameLoop", updated |-> FALSE, now |-> now,
                nShots |-> Len(shots), nBalls |-> Len(balls), nextID |-> nextID,
                hits |-> <<>>, tested |-> <<>>, playerHit |-> FALSE, lastHit |-> lastHit,
                lives |-> playerLives,
                ballIds |-> [j \in 1..Len(balls) |-> balls[j].id]]
    /\ UNCHANGED <<then, playerCharacter, shots, balls, nextID, blink, playerLives,
                   lastHit, timeSinceLastHit>>

mainGameLoop ==
    /\ pendingFrames > 0
    /\ played + frames < MaxFrames
    /\ \E delay \in {RegularDelay} \cup (IF oddDelays < MaxOddDelays THEN OddDelays ELSE {}) :
          LET now == clock + delay
          IN  /\ IF now - then > fpsInterval
                 THEN Update(now)
                 ELSE NoUpdate(now)
              /\ oddDelays' = IF delay = RegularDelay THEN oddDelays ELSE oddDelays + 1
    /\ frames' = frames + 1
    /\ UNCHANGED played
    /\ LET end == EndOfFrame(playerLives', Len(balls'))
       IN  /\ pendingFrames' = IF end = "frame" THEN pendingFrames ELSE pendingFrames - 1
           /\ screen' = IF end = "frame" THEN screen ELSE end
    /\ UNCHANGED <<keyboardListeners, mouseListeners, invulnerabilityTime, moveLeft,
                   moveRight, mousePositionX, controlledByKeyboard, controlledByMouse>>

Keys == {"ArrowRight", "ArrowLeft", " "}
Buttons == {0, 2}

Next ==
    \/ startMainGame
    \/ changeControls
    \/ paintMainMenu
    \/ \E key \in Keys : keydown(key)
    \/ \E key \in Keys : keyup(key)
    \/ \E offsetX \in MouseXs : mousemove(offsetX)
    \/ \E button \in Buttons : mousedown(button)
    \/ mainGameLoop

Spec == Init /\ [][Next]_vars

(***************************************************************************)
(* The ball on its own: constructor, break, gravity and move applied to    *)
(* balls drawn from bounded sets (also outside the arena, as a child of a  *)
(* break can be).  balls holds the balls made; last holds the operation    *)
(* and the ball it was applied to.                                         *)
(***************************************************************************)
MaxBallSteps == 3       \* operations applied after the constructor

SizeArgs == {Int_(n) : n \in -1..5} \cup {Frac(3), Undefined}
BallXs == {-Px(30), Px(41), Px(500), Px(1010)}
BallYs == {Px(5), Px(300), Px(559)}
BallVxs == {-Px(3), 0, Px(2000)}
BallVys == {-Px(900), 0, 49, Px(2)}

restVars == <<hostVars, playerLives, moveLeft, moveRight, mousePositionX,
              controlledByKeyboard, controlledByMouse, then, lastHit, timeSinceLastHit,
              blink, nextID, playerCharacter, played, oddDelays>>

NewBall ==
    /\ last.op = "constructor"
    /\ \E x \in BallXs, y \in BallYs, vx \in BallVxs, vy \in BallVys, size \in SizeArgs :
          /\ balls' = <<BallSuperPang(<<x, y>>, <<vx, vy>>, size, NULL)>>
          /\ last' = [op |-> "BallSuperPang", position |-> <<x, y>>,
                      velocity |-> <<vx, vy>>, size |-> size]
    /\ UNCHANGED <<restVars, shots, frames>>

BallStepAllowed(j) == j \in 1..Len(balls) /\ frames < MaxBallSteps

BreakBall(j) ==
    /\ BallStepAllowed(j)
    /\ balls' = BallSuperPang_break(balls[j])
    /\ last' = [op |-> "break", this |-> balls[j]]
    /\ frames' = frames + 1
    /\ UNCHANGED <<restVars, shots>>

GravityBall(j) ==
    /\ BallStepAllowed(j)
    /\ balls' = [balls EXCEPT ![j] = Particle_gravity(balls[j], GRAVITY)]
    /\ last' = [op |-> "gravity", this |-> balls[j], j |-> j]
    /\ frames' = frames + 1
    /\ UNCHANGED <<restVars, shots>>

MoveBall(j) ==
    /\ BallStepAllowed(j)
    /\ balls' = [balls EXCEPT ![j] = Particle_move(balls[j], GAME_WIDTH, GAME_HEIGHT)]
    /\ last' = [op |-> "move", this |-> balls[j], j |-> j]
    /\ frames' = frames + 1
    /\ UNCHANGED <<restVars, shots>>

\* the move of the ball in a frame (game.js lines 258-260)
TickBall(j) ==
    /\ BallStepAllowed(j)
    /\ balls' = [balls EXCEPT ![j] = BallController_move(balls[j])]
    /\ last' = [op |-> "tick", this |-> balls[j], j |-> j]
    /\ frames' = frames + 1
    /\ UNCHANGED <<restVars, shots>>

NextBall ==
    \/ NewBall
    \/ \E j \in 1..2 : BreakBall(j)
    \/ \E j \in 1..2 : GravityBall(j)
    \/ \E j \in 1..2 : MoveBall(j)
    \/ \E j \in 1..2 : TickBall(j)

SpecBall == Init /\ [][NextBall]_vars

(***************************************************************************)
(* C1.  Ball creation maps size 1, 2, 3 to the radius 10, 20, 40; every    *)
(* other size argument (0, 4, 5, negative, not whole, missing) gives a     *)
(* ball of size 4 and radius 70, the very ball that size 4 gives.          *)
(***************************************************************************)
C1_RadiusMapping ==
    last.op = "BallSuperPang" =>
        LET ball == balls[1]
            size == last.size
        IN  /\ SizeIs(size, 1) => ball.size = 1 /\ ball.radius = Px(10)
            /\ SizeIs(size, 2) => ball.size = 2 /\ ball.radius = Px(20)
            /\ SizeIs(size, 3) => ball.size = 3 /\ ball.radius = Px(40)
            /\ ~(SizeIs(size, 1) \/ SizeIs(size, 2) \/ SizeIs(size, 3)) =>
                  /\ ball.size = 4
                  /\ ball.radius = Px(70)
                  /\ ball = BallSuperPang(last.position, last.velocity, Int_(4), NULL)
            /\ ball.position = last.position
            /\ ball.velocity = last.velocity

C1_Witness ==
    /\ last.op = "BallSuperPang"
    /\ last.size = Undefined
    /\ balls[1].size = 4
    /\ balls[1].radius = Px(70)

\* What break() returned, in balls, for the ball in last.this
C2_SplitShape(strict) ==
    last.op = "break" =>
        IF last.this.size > 1
        THEN /\ Len(balls) = 2
             /\ \A j \in 1..2 : balls[j].size = last.this.size - 1
             /\ balls[1].velocity[1] <= 0
             /\ 0 <= balls[2].velocity[1]
             /\ \A j \in 1..2 :
                   IF strict \/ last.this.velocity[2] # 0
                   THEN balls[j].velocity[2] < 0
                   ELSE balls[j].velocity[2] <= 0
        ELSE Len(balls) = 0

(***************************************************************************)
(* C2.  break() of a ball of size > 1 gives exactly two balls of the size  *)
(* below, the first with velocity.x <= 0 and the second with               *)
(* velocity.x >= 0, both with velocity.y <= 0, and with velocity.y < 0     *)
(* when the ball's velocity.y is not 0; break() of a ball of size 1 gives  *)
(* none.                                                                   *)
(***************************************************************************)
C2_Split == C2_SplitShape(FALSE)

\* C2 as stated: velocity.y < 0 for the two balls whatever the ball's velocity
C2_SplitStrict == C2_SplitShape(TRUE)

C2_Witness ==
    /\ last.op = "break"
    /\ last.this.size > 1
    /\ last.this.velocity[2] = 0
    /\ Len(balls) = 2
    /\ balls[1].velocity[2] = 0

(***************************************************************************)
(* C5.  After a ball's bounded move against the arena the ball lies within *)
(* radius <= x <= GAME_WIDTH - radius and radius <= y <= GAME_HEIGHT -     *)
(* radius, wherever it was and however fast; on an axis where position +   *)
(* velocity reached a wall, the position is exactly radius + 1 or          *)
(* dimension - radius - 1.                                                 *)
(***************************************************************************)
C5_BoundedMove ==
    last.op = "move" =>
        LET ball == balls[last.j]
            r == ball.radius
            x == last.this.position[1] + last.this.velocity[1]
            y == last.this.position[2] + last.this.velocity[2]
        IN  /\ r <= ball.position[1] /\ ball.position[1] <= GAME_WIDTH - r
            /\ r <= ball.position[2] /\ ball.position[2] <= GAME_HEIGHT - r
            /\ (x + r >= GAME_WIDTH \/ x - r <= 0) =>
                  ball.position[1] \in {r + Px(1), GAME_WIDTH - r - Px(1)}
            /\ (y + r >= GAME_HEIGHT \/ y - r <= 0) =>
                  ball.position[2] \in {r + Px(1), GAME_HEIGHT - r - Px(1)}
            /\ ~(x + r >= GAME_WIDTH \/ x - r <= 0) => ball.position[1] = x
            /\ ~(y + r >= GAME_HEIGHT \/ y - r <= 0) => ball.position[2] = y

\* a ball made by break() over the left wall is put back at radius + 1
C5_Witness ==
    /\ last.op = "move"
    /\ last.this.size = 2
    /\ last.this.position[1] = Px(1)
    /\ balls[last.j].position[1] = Px(21)

\* -|v|
Down(v) == IF v > 0 THEN -v ELSE v

C22_Bounce ==
    last.op = "tick" =>
        LET before == last.this
            ball == balls[last.j]
            r == ball.radius
            vy == before.velocity[2] + GRAVITY
            x == before.position[1] + before.velocity[1]
            y == before.position[2] + vy
            vertical == y + r >= GAME_HEIGHT \/ y - r <= 0
            horizontal == x + r >= GAME_WIDTH \/ x - r <= 0
        IN  /\ vertical => ball.velocity[2] = -before.velocity[2]
            /\ ~vertical => ball.velocity[2] = vy
            /\ horizontal => ball.velocity[1] = -before.velocity[1]
            /\ ~horizontal => ball.velocity[1] = before.velocity[1]
            /\ ball.previousVelocity[2] = before.velocity[2]

\* a ball falling at 2 pixels a frame reaches the floor: it leaves at 2 pixels
\* a frame upwards, the gravity of the frame dropped
C22_Witness ==
    /\ last.op = "tick"
    /\ last.this.velocity = <<0, Px(2)>>
    /\ last.this.position[2] = Px(559)
    /\ balls[last.j].velocity[2] = -Px(2)
    /\ balls[last.j].position[2] = GAME_HEIGHT - balls[last.j].radius - Px(1)

\* the ids of a sequence of balls or shots
Ids(s) == [j \in 1..Len(s) |-> s[j].id]

\* the entries of s whose id is not in gone, in order
RECURSIVE Without(_, _)
Without(s, gone) ==
    IF s = <<>> THEN <<>>
    ELSE IF Head(s) \in gone THEN Without(Tail(s), gone)
         ELSE <<Head(s)>> \o Without(Tail(s), gone)

Splits(hits) == {h \in 1..Len(hits) : hits[h].size > 1}

(***************************************************************************)
(* C3.  In the collision step of a frame each hit removes one shot and the *)
(* ball it hit: the shots are fewer by the number of hits and none of the  *)
(* hit shots or balls remains; a hit on a ball of size > 1 adds one to the *)
(* number of balls and 2 to nextID, a hit on a ball of size 1 takes one    *)
(* from the number of balls and leaves nextID; after a single hit on a     *)
(* ball of size > 1 the balls are the others, in order, followed by two    *)
(* balls of the size below with the ids nextID and nextID + 1.             *)
(***************************************************************************)
C3_Hits ==
    (last.op = "mainGameLoop" /\ last.updated) =>
        LET hits == last.hits
            n == Len(hits)
            k == Cardinality(Splits(hits))
        IN  /\ Len(shots) = last.nShots - n
            /\ \A h \in 1..n :
                  /\ \A j \in 1..Len(shots) : shots[j].id # hits[h].shot
                  /\ \A j \in 1..Len(balls) : balls[j].id # hits[h].ball
            /\ Len(balls) = last.nBalls + k - (n - k)
            /\ nextID = last.nextID + 2 * k
            /\ n = 1 =>
                  LET others == Without(last.ballIds, {hits[1].ball})
                  IN  IF k = 1
                      THEN /\ Ids(balls) = others \o <<last.nextID, last.nextID + 1>>
                           /\ balls[Len(balls) - 1].size = hits[1].size - 1
                           /\ balls[Len(balls)].size = hits[1].size - 1
                      ELSE Ids(balls) = others

C3_Witness ==
    /\ last.op = "mainGameLoop"
    /\ last.updated
    /\ Len(last.hits) = 1
    /\ last.hits[1].size > 1
    /\ Len(balls) = last.nBalls + 1
    /\ nextID = last.nextID + 2

(***************************************************************************)
(* The break chain: one ball of size 4, then shots put on the oldest or    *)
(* the newest ball, each handled by the collision step of the frame.      *)
(* last counts the hits, the hits that gave two balls, the balls that      *)
(* have existed and those of size 1 among them.                            *)
(***************************************************************************)
ChainXs == {Px(400), Px(500)}
ChainVys == {-Px(1), 0}

ChainStart ==
    /\ last.op = "constructor"
    /\ \E x \in ChainXs, vy \in ChainVys :
          balls' = <<BallSuperPang(<<x, Px(100)>>, <<Px(1), vy>>, Int_(4), nextID)>>
    /\ nextID' = nextID + 1
    /\ last' = [op |-> "chain", hits |-> 0, splits |-> 0, existed |-> 1, existed1 |-> 0]
    /\ UNCHANGED <<hostVars, playerLives, moveLeft, moveRight, mousePositionX,
                   controlledByKeyboard, controlledByMouse, then, lastHit,
                   timeSinceLastHit, blink, playerCharacter, played, oddDelays,
                   shots, frames>>

ChainHit(j) ==
    /\ last.op \in {"chain", "hit"}
    /\ j \in 1..Len(balls)
    /\ LET shot == Shot(balls[j].position, SHOT_SPEED, SHOT_WIDTH, nextID)
           st == CollideShots([shots |-> <<shot>>, balls |-> balls, nextID |-> nextID + 1,
                               hits |-> <<>>, tested |-> <<>>], 1)
           new == {n \in 1..Len(st.balls) : st.balls[n].id > nextID}
       IN  /\ shots' = st.shots
           /\ balls' = st.balls
           /\ nextID' = st.nextID
           /\ last' = [op |-> "hit",
                       size |-> st.hits[1].size,
                       children |-> [n \in 1..Cardinality(new) |->
                                        st.balls[Len(st.balls) - Cardinality(new) + n].size],
                       hits |-> last.hits + Len(st.hits),
                       splits |-> last.splits + Cardinality(Splits(st.hits)),
                       existed |-> last.existed + Cardinality(new),
                       existed1 |-> last.existed1
                                    + Cardinality({n \in new : st.balls[n].size = 1})]
    /\ UNCHANGED <<hostVars, playerLives, moveLeft, moveRight, mousePositionX,
                   controlledByKeyboard, controlledByMouse, then, lastHit,
                   timeSinceLastHit, blink, playerCharacter, played, oddDelays, frames>>

NextChain ==
    \/ ChainStart
    \/ \E j \in {1, Len(balls)} : ChainHit(j)

SpecChain == Init /\ [][NextChain]_vars

(***************************************************************************)
(* C4.  From one ball of size 4, hitting the balls that exist: a hit on a  *)
(* ball of size 4, 3 or 2 gives two balls of the size below and a hit on a *)
(* ball of size 1 gives none; there are never more than 15 hits, and when  *)
(* no ball is left 15 balls have existed, 8 of them of size 1, and 7 of    *)
(* the 15 hits gave two balls.                                             *)
(***************************************************************************)
C4_BreakChain ==
    last.op \in {"chain", "hit"} =>
        /\ last.op = "hit" =>
              /\ last.size > 1 => last.children = <<last.size - 1, last.size - 1>>
              /\ last.size = 1 => last.children = <<>>
        /\ last.existed <= 15 /\ last.existed1 <= 8 /\ last.splits <= 7
        /\ last.hits <= 15
        /\ last.existed = 1 + 2 * last.splits
        /\ Len(balls) = last.existed - last.hits
        /\ Len(balls) = 0 =>
              /\ last.existed = 15
              /\ last.existed1 = 8
              /\ last.splits = 7
              /\ last.hits = 15

C4_Witness ==
    /\ last.op = "hit"
    /\ Len(balls) = 0
    /\ last.existed = 15
    /\ last.existed1 = 8
    /\ last.splits = 7

(***************************************************************************)
(* The shot on its own: one shot made at a height y0 with a speed, then    *)
(* the propagation step of the frame (lines 250-255) until the shot is     *)
(* removed.  last counts the calls of propagateOrRemove and holds the      *)
(* value of the last call and the position.y and height after it.          *)
(***************************************************************************)
ShotYs == {1, Px(6), Px(7), Px(12), Px(600)}
ShotSpeeds == {Px(1), Px(6)}

ShotStart ==
    /\ last.op = "constructor"
    /\ \E y0 \in ShotYs, speed \in ShotSpeeds :
          /\ shots' = <<Shot(<<Px(500), y0>>, speed, SHOT_WIDTH, nextID)>>
          /\ last' = [op |-> "shot", y0 |-> y0, speed |-> speed, calls |-> 0,
                      ret |-> FALSE, y |-> y0, height |-> 0]
    /\ nextID' = nextID + 1
    /\ UNCHANGED <<hostVars, playerLives, moveLeft, moveRight, mousePositionX,
                   controlledByKeyboard, controlledByMouse, then, lastHit,
                   timeSinceLastHit, blink, playerCharacter, played, oddDelays,
                   balls, frames>>

ShotAdvance ==
    /\ last.op \in {"shot", "advance"}
    /\ Len(shots) = 1
    /\ LET r == Shot_propagateOrRemove(shots[1])
       IN  /\ shots' = PropagateShots(shots, 1)
           /\ last' = [last EXCEPT !.op = "advance", !.calls = last.calls + 1,
                                   !.ret = r.ret, !.y = r.shot.position[2],
                                   !.height = r.shot.height]
    /\ UNCHANGED <<restVars, balls, frames>>

NextShot ==
    \/ ShotStart
    \/ ShotAdvance

SpecShot == Init /\ [][NextShot]_vars

\* ceil(a / b) for a >= 0 and b > 0
Ceil(a, b) == (a + b - 1) \div b

(***************************************************************************)
(* C6.  A shot made at y0 > 0 with a constant speed has position.y <= 0    *)
(* after exactly ceil(y0 / speed) calls of propagateOrRemove and not       *)
(* before; each of these calls returns false, and the call after them      *)
(* returns true, leaves the position as it is and has the shot removed.    *)
(***************************************************************************)
C6_ShotExpiry ==
    last.op = "advance" =>
        LET n == Ceil(last.y0, last.speed)
        IN  /\ last.calls <= n + 1
            /\ last.calls < n => (~last.ret /\ last.y > 0 /\ Len(shots) = 1)
            /\ last.calls = n => (~last.ret /\ last.y <= 0 /\ Len(shots) = 1)
            /\ last.calls = n + 1 => (last.ret /\ last.y <= 0 /\ Len(shots) = 0)
            /\ last.y = last.y0 - last.speed * (IF last.calls <= n THEN last.calls ELSE n)

\* C6 as stated: the call number ceil(y0 / speed) returns true
C6_ExpiryOnThatTick ==
    last.op = "advance" =>
        LET n == Ceil(last.y0, last.speed)
        IN  /\ last.calls < n => (~last.ret /\ last.y > 0)
            /\ last.calls = n => (last.ret /\ last.y <= 0)

C6_Witness ==
    /\ last.op = "advance"
    /\ last.y0 = Px(7)
    /\ last.speed = Px(6)
    /\ last.calls = 3
    /\ last.ret
    /\ Len(shots) = 0

\* the shot in flight, and the shot after the last call: the bottom is where
\* the shot was made, the height is a whole number of steps
ShotShape ==
    last.op \in {"shot", "advance"} =>
        /\ \A j \in 1..Len(shots) :
              /\ shots[j].position[2] + shots[j].height = last.y0
              /\ shots[j].height >= 0
              /\ shots[j].height % shots[j].speed = 0
              /\ shots[j].position[2] > -shots[j].speed
              /\ shots[j].speed = last.speed
              /\ shots[j].position[2] = last.y
              /\ shots[j].height = last.height
        /\ last.y + last.height = last.y0
        /\ last.height = last.speed * (IF last.ret THEN last.calls - 1 ELSE last.calls)

\* a call that returns true leaves the position and the height
ShotKeptAtTop ==
    (last'.op = "advance" /\ last'.ret) => (last'.y = last.y /\ last'.height = last.height)

(***************************************************************************)
(* C30.  For a shot in flight position.y + height is the y at which it was *)
(* made, at all times; height is a non-negative multiple of speed;         *)
(* position.y > -speed; and a call of propagateOrRemove that returns true  *)
(* changes neither the position nor the height.                            *)
(***************************************************************************)
C30_ShotShape == []ShotShape /\ [][ShotKeptAtTop]_vars

\* a shot made at the bottom of the arena, at the top after 100 calls: the
\* next call returns true and leaves it at y = 0 with the height 600
C30_Witness ==
    /\ last.op = "advance"
    /\ last.ret
    /\ last.y0 = GAME_HEIGHT
    /\ last.speed = SHOT_SPEED
    /\ last.calls = 101
    /\ last.y = 0
    /\ last.height = GAME_HEIGHT

\* the step is a fire request (space keydown or left mousedown) made with
\* MAX_SHOTS shots or more
FireAtMaxShots ==
    /\ Len(shots) >= MAX_SHOTS
    /\ \/ last'.op = "keydown" /\ last'.key = " "
       \/ last'.op = "mousedown" /\ last'.button = 0

LiveIds(b, s) == {b[j].id : j \in 1..Len(b)} \cup {s[j].id : j \in 1..Len(s)}

\* the balls and shots that exist have distinct ids, all taken from nextID
IdsDistinct ==
    /\ Cardinality(LiveIds(balls, shots)) = Len(balls) + Len(shots)
    /\ \A id \in LiveIds(balls, shots) : 0 <= id /\ id < nextID

\* nextID does not decrease, and the balls and shots that a step makes have
\* ids taken from nextID in that step: ids no ball or shot had before
IdsFresh ==
    LET new == LiveIds(balls', shots') \ LiveIds(balls, shots)
    IN  /\ nextID' >= nextID
        /\ new \subseteq nextID..(nextID' - 1)
        /\ last'.op \in {"startMainGame", "keydown", "mousedown"} =>
              new = nextID..(nextID' - 1)
        /\ last'.op = "startMainGame" => nextID' = nextID + INITIAL_BALLS
        /\ last'.op = "mainGameLoop" =>
              nextID' = nextID + 2 * Cardinality(Splits(last'.hits))

(***************************************************************************)
(* C8.  nextID never decreases and no id is given twice: the balls of a    *)
(* new game and the shots fired take nextID, nextID + 1, ... one each, the *)
(* two balls of a break take two ids and nextID advances by 2; every ball  *)
(* or shot a step makes has an id from nextID on, above all ids given      *)
(* before, so the balls and shots that exist, together or at different     *)
(* times, have distinct ids.                                               *)
(***************************************************************************)
C8_UniqueIds == []IdsDistinct /\ [][IdsFresh]_vars

\* a frame with a break while a shot is in flight: the two new balls have the
\* two ids taken from nextID
C8_Witness ==
    /\ last.op = "mainGameLoop"
    /\ Splits(last.hits) # {}
    /\ Len(shots) >= 1
    /\ Len(balls) >= 2
    /\ balls[Len(balls)].id = nextID - 1
    /\ balls[Len(balls) - 1].id = nextID - 2
    /\ IdsDistinct

(***************************************************************************)
(* C9.  At the end of a frame: no life left gives the defeat screen, also  *)
(* with no ball left; lives left and no ball left give the victory screen; *)
(* otherwise the game goes on and exactly one frame is scheduled.  On the  *)
(* victory and defeat screens no frame is scheduled.                       *)
(***************************************************************************)
C9_EndOfFrame ==
    /\ last.op = "mainGameLoop" =>
          /\ playerLives = 0 => (screen = "defeat" /\ pendingFrames = 0)
          /\ (playerLives > 0 /\ Len(balls) = 0) => (screen = "victory" /\ pendingFrames = 0)
          /\ (playerLives > 0 /\ Len(balls) > 0) => (screen = "game" /\ pendingFrames = 1)
    /\ EndOfFrame(0, 0) = "defeat"
    /\ screen \in {"victory", "defeat"} => pendingFrames = 0
    /\ screen = "victory" => (playerLives > 0 /\ Len(balls) = 0)
    /\ screen = "defeat" => playerLives = 0
    /\ pendingFrames \in {0, 1}

C9_Witness ==
    /\ last.op = "mainGameLoop"
    /\ last.lives = 1
    /\ playerLives = 0
    /\ Len(balls) > 0
    /\ screen = "defeat"
    /\ pendingFrames = 0

(***************************************************************************)
(* The game with Settings.INVULNERABILITY_TIME set to other values than    *)
(* the 2000 of settings.js                                                 *)
(***************************************************************************)
InvulnerabilityTimes == {Ms(2000), Ms(3000)}

InitCfg ==
    /\ invulnerabilityTime \in InvulnerabilityTimes
    /\ Constructed

SpecCfg == InitCfg /\ [][Next]_vars

(***************************************************************************)
(* C10.  With D the value of Settings.INVULNERABILITY_TIME, whatever it    *)
(* is: a frame at a time t after the last loss of a life at t0 takes no    *)
(* life when t - t0 < D, and a frame in which a ball touches the player at *)
(* t - t0 = D + 1 takes a life.                                            *)
(***************************************************************************)
C10_Window ==
    (last.op = "mainGameLoop" /\ last.updated) =>
        /\ last.now - last.lastHit < invulnerabilityTime => playerLives = last.lives
        /\ (last.playerHit /\ last.now - last.lastHit = invulnerabilityTime + Ms(1)) =>
              playerLives = last.lives - 1

(***************************************************************************)
(* The last life: a game started with PLAYER_LIVES set to 1 or 2 and       *)
(* INITIAL_BALLS to 1, the ball made where it falls on the player, and no  *)
(* input: the player stands at the spawn position and nothing is fired.    *)
(***************************************************************************)
LastLifeLives == {1, 2}
LastLifeBalls ==
    {[at |-> <<Px(100), Px(480), 0, Px(2)>>, size |-> 1],
     [at |-> <<Px(200), Px(450), -Px(3), Px(1)>>, size |-> 2],
     [at |-> <<Px(120), Px(300), Px(1), -Px(1)>>, size |-> 3]}

LastLifeStart ==
    /\ last.op = "constructor"
    /\ \E lives \in LastLifeLives, draw \in LastLifeBalls :
          /\ playerLives' = lives
          /\ balls' = createBalls(1, <<draw>>, nextID)
    /\ keyboardListeners' = keyboardListeners + 1
    /\ screen' = "game"
    /\ playerCharacter' = PlayerCharacter(<<Px(50), GAME_HEIGHT - PLAYER_HEIGHT>>, "player",
                                          PLAYER_WIDTH, PLAYER_HEIGHT)
    /\ nextID' = nextID + 1
    /\ shots' = <<>>
    /\ lastHit' = 0
    /\ pendingFrames' = pendingFrames + 1
    /\ last' = [op |-> "startMainGame"]
    /\ UNCHANGED <<mouseListeners, clock, invulnerabilityTime, moveLeft, moveRight,
                   mousePositionX, controlledByKeyboard, controlledByMouse, then,
                   timeSinceLastHit, blink, frames, played, oddDelays>>

NextLastLife ==
    \/ LastLifeStart
    \/ mainGameLoop

SpecLastLife == Init /\ [][NextLastLife]_vars

(***************************************************************************)
(* C11.  With one life left, one ball and the player standing still: the   *)
(* frame in which the ball touches the player more than 2000 ms after the  *)
(* last loss of a life (always so in a game started with one life) ends on *)
(* the defeat screen with no life left; the defeat screen is entered in    *)
(* such a frame only, and the victory screen is never entered.             *)
(***************************************************************************)
C11_LastLife ==
    /\ (last.op = "mainGameLoop" /\ last.updated /\ last.lives = 1 /\ last.playerHit
        /\ last.now - last.lastHit > Ms(2000)) =>
          (playerLives = 0 /\ screen = "defeat" /\ pendingFrames = 0)
    /\ screen = "defeat" =>
          (last.op = "mainGameLoop" /\ last.lives = 1 /\ last.playerHit)
    /\ screen # "victory"
    /\ Len(balls) <= 1

\* C11 as stated: with one life left the frame in which the ball touches the
\* player ends on the defeat screen
C11_LostAtCollision ==
    /\ (last.op = "mainGameLoop" /\ last.updated /\ last.lives = 1 /\ last.playerHit) =>
          (playerLives = 0 /\ screen = "defeat")
    /\ screen # "victory"

\* a game started with one life, lost in the frame of the first collision
C11_Witness ==
    /\ last.op = "mainGameLoop"
    /\ last.lives = 1
    /\ last.lastHit = 0
    /\ last.playerHit
    /\ Len(balls) = 1
    /\ screen = "defeat"

(***************************************************************************)
(* The player on its own: made at the spawn position, then the character   *)
(* step of the frame (lines 235-247) with the left and right keys held or  *)
(* not, frame after frame.                                                 *)
(***************************************************************************)
PlayerStart ==
    /\ last.op = "constructor"
    /\ playerCharacter' = PlayerCharacter(<<Px(50), GAME_HEIGHT - PLAYER_HEIGHT>>, "player",
                                          PLAYER_WIDTH, PLAYER_HEIGHT)
    /\ last' = [op |-> "player"]
    /\ UNCHANGED <<hostVars, playerLives, moveLeft, moveRight, mousePositionX,
                   controlledByKeyboard, controlledByMouse, then, lastHit,
                   timeSinceLastHit, blink, nextID, balls, shots, frames, played,
                   oddDelays>>

PlayerTick(left, right) ==
    /\ last.op \in {"player", "character"}
    /\ moveLeft' = left
    /\ moveRight' = right
    /\ playerCharacter' = MoveCharacter(playerCharacter, left, right, mousePositionX)
    /\ last' = [op |-> "character", from |-> playerCharacter.position[1]]
    /\ UNCHANGED <<hostVars, playerLives, mousePositionX, controlledByKeyboard,
                   controlledByMouse, then, lastHit, timeSinceLastHit, blink, nextID,
                   balls, shots, frames, played, oddDelays>>

NextPlayer ==
    \/ PlayerStart
    \/ \E left \in BOOLEAN, right \in BOOLEAN : PlayerTick(left, right)

SpecPlayer == Init /\ [][NextPlayer]_vars

(***************************************************************************)
(* C12.  The player stays inside the arena: 0 <= position.x and            *)
(* position.x + width <= GAME_WIDTH after every frame, whatever keys are   *)
(* held (left, right, both or none), from the spawn position on; a step    *)
(* that would pass a wall ends on the wall.                                *)
(***************************************************************************)
C12_PlayerInside ==
    last.op \in {"player", "character"} =>
        LET x == playerCharacter.position[1]
        IN  /\ 0 <= x
            /\ x + playerCharacter.width <= GAME_WIDTH
            /\ playerCharacter.position[2] = GAME_HEIGHT - PLAYER_HEIGHT
            /\ last.op = "character" =>
                  /\ (moveLeft /\ ~moveRight) =>
                        x = (IF last.from - PLAYER_STEP <= 0 THEN 0
                             ELSE last.from - PLAYER_STEP)
                  /\ (moveRight /\ ~moveLeft) =>
                        x = (IF last.from + PLAYER_STEP + PLAYER_WIDTH >= GAME_WIDTH
                             THEN GAME_WIDTH - PLAYER_WIDTH
                             ELSE last.from + PLAYER_STEP)
                  /\ (~moveLeft /\ ~moveRight) => x = last.from

\* the step to the right that would pass the right wall
C12_Witness ==
    /\ last.op = "character"
    /\ moveRight
    /\ ~moveLeft
    /\ last.from + PLAYER_STEP + PLAYER_WIDTH > GAME_WIDTH
    /\ playerCharacter.position[1] = GAME_WIDTH - PLAYER_WIDTH

(***************************************************************************)
(* The two collision tests on their own: a rectangle taken as a player and *)
(* as a shot, and a ball of each size around it, at whole pixels, at the   *)
(* distances 0, 3r/5, 4r/5, r - 1, r, r + 1 from its sides.  last holds    *)
(* the rectangle, the ball and the two answers.                            *)
(***************************************************************************)
Rects ==
    {[position |-> <<Px(50), Px(515)>>, width |-> PLAYER_WIDTH, height |-> PLAYER_HEIGHT],
     [position |-> <<Px(500), Px(300)>>, width |-> SHOT_WIDTH, height |-> Px(120)],
     [position |-> <<Px(500), Px(300)>>, width |-> 0, height |-> 0]}

Offsets(r) == {0, (3 * r) \div 5, (4 * r) \div 5, r - Px(1), r, r + Px(1)}

\* the coordinates tried on one axis for a side of the rectangle at lo .. lo + len
Around(lo, len, r) ==
    {lo - k : k \in Offsets(r)} \cup {lo + ((len \div Scale) \div 2) * Scale}
        \cup {lo + len + k : k \in Offsets(r)}

Colides ==
    /\ last.op = "constructor"
    /\ \E rect \in Rects, size \in 1..4 :
          LET r == BallSuperPang(<<0, 0>>, <<0, 0>>, Int_(size), NULL).radius
          IN  \E x \in Around(rect.position[1], rect.width, r),
                 y \in Around(rect.position[2], rect.height, r) :
                    LET ball == BallSuperPang(<<x, y>>, <<0, 0>>, Int_(size), NULL)
                        player == PlayerCharacter(rect.position, "player", rect.width,
                                                  rect.height)
                        shot == [Shot(rect.position, SHOT_SPEED, rect.width, NULL)
                                    EXCEPT !.height = rect.height]
                    IN  last' = [op |-> "colides", rect |-> rect, ball |-> ball,
                                 player |-> PlayerCharacter_colidesWithBall(player, ball),
                                 shot |-> Shot_colidesWithBall(shot, ball)]
    /\ UNCHANGED <<restVars, balls, shots, frames>>

NextColides == Colides

SpecColides == Init /\ [][NextColides]_vars

\* v clamped into [lo, hi]
Clamp(v, lo, hi) == IF v < lo THEN lo ELSE IF v > hi THEN hi ELSE v

\* the distance between the whole-pixel points p and q is <= r, in pixels
WithinPx(p, q, r) ==
    LET dx == (p[1] - q[1]) \div Scale
        dy == (p[2] - q[2]) \div Scale
        rr == r \div Scale
    IN  dx * dx + dy * dy <= rr * rr

\* the ball of last touches the rectangle of last
Touches ==
    LET rect == last.rect
        c == last.ball.position
        nearest == <<Clamp(c[1], rect.position[1], rect.position[1] + rect.width),
                     Clamp(c[2], rect.position[2], rect.position[2] + rect.height)>>
    IN  WithinPx(c, nearest, last.ball.radius)

(***************************************************************************)
(* C13.  PlayerCharacter.colidesWithBall and Shot.colidesWithBall are true *)
(* exactly when the distance from the centre of the ball to the nearest    *)
(* point of the rectangle (the centre clamped into the rectangle) is <=    *)
(* the radius, a ball that just touches included; the two give the same    *)
(* answer for the same rectangle and ball.                                 *)
(***************************************************************************)
C13_Colides ==
    last.op = "colides" =>
        /\ last.player = Touches
        /\ last.shot = Touches
        /\ last.player = last.shot

\* a ball of radius 10 at 6 and 8 pixels from the corner of the player: it
\* just touches
C13_Witness ==
    /\ last.op = "colides"
    /\ last.rect.width = PLAYER_WIDTH
    /\ last.ball.radius = Px(10)
    /\ last.ball.position = <<Px(50) - Px(6), Px(515) - Px(8)>>
    /\ last.player
    /\ last.shot

(***************************************************************************)
(* C14.  For a rectangle of width 0 and height 0 the test of the shot is   *)
(* the test of a point: true exactly when the distance between the centre  *)
(* of the ball and the position of the rectangle is <= the radius.         *)
(***************************************************************************)
C14_PointTest ==
    (last.op = "colides" /\ last.rect.width = 0 /\ last.rect.height = 0) =>
        last.shot = WithinPx(last.ball.position, last.rect.position, last.ball.radius)

\* a ball of radius 20 at 12 and 16 pixels from the point: it just touches
C14_Witness ==
    /\ last.op = "colides"
    /\ last.rect.width = 0
    /\ last.rect.height = 0
    /\ last.ball.radius = Px(20)
    /\ last.ball.position = <<Px(500) + Px(12), Px(300) + Px(16)>>
    /\ last.shot

\* a step of a game: lives go down by one at most, and go up at a new game
\* only; a frame runs with lives left only
LivesStep ==
    /\ playerLives' <= playerLives \/ last'.op = "startMainGame"
    /\ playerLives' >= playerLives - 1
    /\ frames' = frames + 1 => playerLives > 0

(***************************************************************************)
(* C15.  playerLives is an integer from 0 to PLAYER_LIVES in every state;  *)
(* within a game it never goes up (a new game sets it to PLAYER_LIVES),    *)
(* and no frame runs once it is 0, so it is never negative.                *)
(***************************************************************************)
C15_Lives == [](playerLives \in 0..PLAYER_LIVES) /\ [][LivesStep]_vars

\* on the defeat screen, after the last life: no frame, the keys still heard
C15_Witness ==
    /\ screen = "defeat"
    /\ playerLives = 0
    /\ pendingFrames = 0
    /\ last.op = "keyup"

(***************************************************************************)
(* C16.  After every startMainGame, the first or a later one: playerLives  *)
(* is PLAYER_LIVES, there is no shot, there are INITIAL_BALLS balls,       *)
(* lastHit is 0 and the player is at the spawn position; and in a frame    *)
(* with lastHit 0 a ball that touches the player takes a life.             *)
(***************************************************************************)
C16_FreshGame ==
    /\ last.op = "startMainGame" =>
          /\ playerLives = PLAYER_LIVES
          /\ shots = <<>>
          /\ Len(balls) = INITIAL_BALLS
          /\ lastHit = 0
          /\ playerCharacter.position = <<Px(50), GAME_HEIGHT - PLAYER_HEIGHT>>
          /\ screen = "game"
          /\ pendingFrames = 1
    /\ (last.op = "mainGameLoop" /\ last.updated /\ last.lastHit = 0 /\ last.playerHit) =>
          playerLives = last.lives - 1

\* a new game after a game that was lost
C16_Witness ==
    /\ last.op = "startMainGame"
    /\ played > 0
    /\ nextID > INITIAL_BALLS
    /\ playerLives = PLAYER_LIVES
    /\ lastHit = 0

(***************************************************************************)
(* C17.  In a game only the listeners of the chosen controls are           *)
(* registered: none of the mouse in a game played with the keyboard, none  *)
(* of the keyboard in a game played with the mouse; in a game played with  *)
(* the mouse a space key makes no shot, and in a game played with the      *)
(* keyboard a mouse button makes none.                                     *)
(***************************************************************************)
C17_OnlyChosenControls ==
    screen = "game" =>
        /\ controlledByKeyboard => mouseListeners = 0
        /\ ~controlledByKeyboard => keyboardListeners = 0
        /\ (~controlledByKeyboard /\ last.op = "keydown") => Len(shots) = last.shotsBefore
        /\ (controlledByKeyboard /\ last.op = "mousedown") => Len(shots) = last.shotsBefore

(***************************************************************************)
(* Several shots: one to MAX_SHOTS shots in flight at heights above, at    *)
(* and below the top of the arena, then the propagation step of the frame  *)
(* (lines 250-255), frame after frame.  last holds the shots before it.    *)
(***************************************************************************)
ShotsYs == {-Px(5), 0, Px(4), Px(12)}

ShotsStart ==
    /\ last.op = "constructor"
    /\ \E n \in 1..MAX_SHOTS :
          \E ys \in [1..n -> ShotsYs] :
             /\ shots' = [j \in 1..n |->
                             Shot(<<Px(500), ys[j]>>, SHOT_SPEED, SHOT_WIDTH, nextID + j - 1)]
             /\ nextID' = nextID + n
    /\ last' = [op |-> "shots"]
    /\ UNCHANGED <<hostVars, playerLives, moveLeft, moveRight, mousePositionX,
                   controlledByKeyboard, controlledByMouse, then, lastHit,
                   timeSinceLastHit, blink, playerCharacter, played, oddDelays,
                   balls, frames>>

ShotsTick ==
    /\ last.op \in {"shots", "propagate"}
    /\ Len(shots) > 0
    /\ shots' = PropagateShots(shots, 1)
    /\ last' = [op |-> "propagate", before |-> shots]
    /\ UNCHANGED <<restVars, balls, frames>>

NextShots ==
    \/ ShotsStart
    \/ ShotsTick

SpecShots == Init /\ [][NextShots]_vars

\* The shots after one pass over the shots s, told shot by shot: a shot that
\* follows a removed shot is left as it is (skip), every other shot is
\* visited once: propagated when its position.y > 0, removed otherwise.
RECURSIVE OnePass(_, _)
OnePass(s, skip) ==
    IF s = <<>> THEN <<>>
    ELSE IF skip THEN <<Head(s)>> \o OnePass(Tail(s), FALSE)
    ELSE IF Head(s).position[2] > 0
         THEN <<[Head(s) EXCEPT !.height = Head(s).height + Head(s).speed,
                                !.position[2] = Head(s).position[2] - Head(s).speed]>>
              \o OnePass(Tail(s), FALSE)
         ELSE OnePass(Tail(s), TRUE)

(***************************************************************************)
(* C18.  In the propagation step of a frame, when a shot is removed the    *)
(* shot that followed it is not visited in that frame: it is neither       *)
(* propagated nor removed, even when it is itself at the top; every other  *)
(* shot is visited exactly once.                                           *)
(***************************************************************************)
C18_SkipAfterRemoval ==
    last.op = "propagate" => shots = OnePass(last.before, FALSE)

\* two shots at the top: the first is removed, the second stays as it was
C18_Witness ==
    /\ last.op = "propagate"
    /\ Len(last.before) = 2
    /\ last.before[1].position[2] <= 0
    /\ last.before[2].position[2] <= 0
    /\ shots = <<last.before[2]>>

(***************************************************************************)
(* C19.  In the collision step of a frame every shot in flight at the      *)
(* start of the step is tested against the balls, in the order fired: as   *)
(* many shots are tested as are in flight after the propagation step.      *)
(***************************************************************************)
C19_EveryShotTested ==
    (last.op = "mainGameLoop" /\ last.updated) => Len(last.tested) = last.nShots

(***************************************************************************)
(* The collision step on its own: one or two shots and two or three balls  *)
(* put around them, then the collision step of the frame (lines 263-276).  *)
(* last holds the shots and balls before it, the hits and the shots        *)
(* tested.                                                                 *)
(***************************************************************************)
HitShots ==
    LET s1 == [position |-> <<Px(500), Px(300)>>, height |-> Px(120)]
        s2 == [position |-> <<Px(560), Px(300)>>, height |-> Px(120)]
    IN  {<<s1>>, <<s2>>, <<s1, s2>>, <<s2, s1>>, <<s1, s1>>}

HitBalls ==
    {[at |-> <<Px(470), Px(350), 0, 0>>, size |-> 3],
     [at |-> <<Px(505), Px(350), 0, 0>>, size |-> 1],
     [at |-> <<Px(570), Px(400), 0, 0>>, size |-> 2],
     [at |-> <<Px(800), Px(100), 0, 0>>, size |-> 1]}

HitStart ==
    /\ last.op = "constructor"
    /\ \E n \in 2..3 :
          \E draws \in [1..n -> HitBalls], fired \in HitShots :
             /\ \A a, b \in 1..n : a # b => draws[a] # draws[b]
             /\ balls' = createBalls(n, draws, nextID)
             /\ shots' = [j \in 1..Len(fired) |->
                             [Shot(fired[j].position, SHOT_SPEED, SHOT_WIDTH, nextID + n + j - 1)
                                 EXCEPT !.height = fired[j].height]]
             /\ nextID' = nextID + n + Len(fired)
    /\ last' = [op |-> "hitStart"]
    /\ UNCHANGED <<hostVars, playerLives, moveLeft, moveRight, mousePositionX,
                   controlledByKeyboard, controlledByMouse, then, lastHit,
                   timeSinceLastHit, blink, playerCharacter, played, oddDelays, frames>>

HitStep ==
    /\ last.op = "hitStart"
    /\ LET st == CollideShots([shots |-> shots, balls |-> balls, nextID |-> nextID,
                               hits |-> <<>>, tested |-> <<>>], 1)
       IN  /\ shots' = st.shots
           /\ balls' = st.balls
           /\ nextID' = st.nextID
           /\ last' = [op |-> "collide", shots |-> shots, balls |-> balls,
                       hits |-> st.hits, tested |-> st.tested]
    /\ UNCHANGED <<hostVars, playerLives, moveLeft, moveRight, mousePositionX,
                   controlledByKeyboard, controlledByMouse, then, lastHit,
                   timeSinceLastHit, blink, playerCharacter, played, oddDelays, frames>>

NextHit ==
    \/ HitStart
    \/ HitStep

SpecHit == Init /\ [][NextHit]_vars

\* the ball touches the rectangle of the shot, at whole pixels
ShotTouches(shot, ball) ==
    LET c == ball.position
        nearest == <<Clamp(c[1], shot.position[1], shot.position[1] + shot.width),
                     Clamp(c[2], shot.position[2], shot.position[2] + shot.height)>>
    IN  WithinPx(c, nearest, ball.radius)

\* the indexes of the balls of b that the shot overlaps
Overlapping(shot, b) == {j \in 1..Len(b) : ShotTouches(shot, b[j])}

(***************************************************************************)
(* C20.  A shot that overlaps several balls breaks the one with the lowest *)
(* index in balls, not the nearest, and is removed; it breaks no other     *)
(* ball in the frame: the other balls it overlaps stay, unless another     *)
(* shot breaks them; no shot is in two hits and no ball is broken twice.   *)
(***************************************************************************)
C20_LowestIndex ==
    last.op = "collide" =>
        LET hits == last.hits
            first == last.shots[1]
            over == Overlapping(first, last.balls)
            lowest == CHOOSE j \in over : \A k \in over : j <= k
            ballIds == {balls[j].id : j \in 1..Len(balls)}
            shotIds == {shots[j].id : j \in 1..Len(shots)}
        IN  /\ \A g, h \in 1..Len(hits) :
                  g # h => (hits[g].shot # hits[h].shot /\ hits[g].ball # hits[h].ball)
            /\ \A h \in 1..Len(hits) :
                  hits[h].shot \notin shotIds /\ hits[h].ball \notin ballIds
            /\ IF over # {}
               THEN /\ hits # <<>>
                    /\ hits[1].shot = first.id
                    /\ hits[1].ball = last.balls[lowest].id
                    /\ \A j \in over \ {lowest} :
                          \/ last.balls[j].id \in ballIds
                          \/ \E h \in 2..Len(hits) : hits[h].ball = last.balls[j].id
               ELSE /\ first.id \in shotIds
                    /\ \A h \in 1..Len(hits) : hits[h].shot # first.id
            /\ Len(balls) = Len(last.balls) + 2 * Cardinality(Splits(hits)) - Len(hits)
            /\ Len(shots) = Len(last.shots) - Len(hits)

\* the shot overlaps the ball of size 3, first in balls and 30 pixels away,
\* and the ball of size 1, second in balls and 2 pixels away: the first is
\* broken and the second stays
C20_Witness ==
    /\ last.op = "collide"
    /\ Len(last.shots) = 1
    /\ last.shots[1].position[1] = Px(500)
    /\ last.balls[1].position = <<Px(470), Px(350)>>
    /\ last.balls[2].position = <<Px(505), Px(350)>>
    /\ last.hits = <<[shot |-> last.shots[1].id, ball |-> last.balls[1].id, size |-> 3]>>
    /\ \E j \in 1..Len(balls) : balls[j].id = last.balls[2].id
    /\ shots = <<>>

(***************************************************************************)
(* The particle on its own: a particle of radius 10 or 20 and none, one or *)
(* two other particles of radius 30 or 40 put around it at whole pixels,   *)
(* some of them at exactly the sum of the radii.  last holds the           *)
(* particles and the answers of colides and colidesWithArray.              *)
(***************************************************************************)
ParticleRadii == {Px(10), Px(20)}
OtherRadii == {Px(30), Px(40)}
OtherOffsets ==
    {<<0, 0>>, <<Px(30), Px(40)>>, <<Px(29), Px(40)>>, <<-Px(50), 0>>, <<Px(36), -Px(48)>>,
     <<-Px(24), -Px(32)>>, <<Px(100), 0>>}

Others ==
    {Particle(<<Px(500) + o[1], Px(300) + o[2]>>, <<0, 0>>, r, 1, NULL) :
        o \in OtherOffsets, r \in OtherRadii}

ParticlesColide ==
    /\ last.op = "constructor"
    /\ \E r \in ParticleRadii, n \in 0..2 :
          \E particles \in [1..n -> Others] :
             LET particleToCheck == Particle(<<Px(500), Px(300)>>, <<0, 0>>, r, 1, NULL)
             IN  last' = [op |-> "colides",
                          particle |-> particleToCheck,
                          particles |-> particles,
                          each |-> [j \in 1..n |-> Particle_colides(particleToCheck,
                                                                    particles[j])],
                          any |-> Particle_colidesWithArray(particleToCheck, particles)]
    /\ UNCHANGED <<restVars, balls, shots, frames>>

\* Two particles that have moved freely one step, then resolveCollision.
\* Positions, velocities and masses are small whole numbers.
ResolvePositions == {<<1, 0>>, <<1, 1>>, <<-2, 1>>, <<3, -1>>}
ResolveVelocities1 == {<<1, 0>>, <<2, -1>>, <<0, 0>>}
ResolveVelocities2 == {<<0, 0>>, <<-1, 1>>, <<-2, 0>>}
ResolveMasses == {1, 2, 3}

ParticlesResolve ==
    /\ last.op = "constructor"
    /\ \E position2 \in ResolvePositions, velocity1 \in ResolveVelocities1,
          velocity2 \in ResolveVelocities2, mass1 \in ResolveMasses, mass2 \in ResolveMasses :
          LET particle1 == Particle_move(Particle(<<0, 0>>, velocity1, 1, mass1, NULL),
                                         NULL, NULL)
              particle2 == Particle_move(Particle(position2, velocity2, 1, mass2, NULL),
                                         NULL, NULL)
          IN  last' = [op |-> "resolve", particle1 |-> particle1, particle2 |-> particle2,
                       after |-> Particle_resolveCollision(particle1, particle2)]
    /\ UNCHANGED <<restVars, balls, shots, frames>>

NextParticles ==
    \/ ParticlesColide
    \/ ParticlesResolve

SpecParticles == Init /\ [][NextParticles]_vars

\* the distance between the whole-pixel centres of p and q is < the sum of
\* the radii, in pixels
Overlap(p, q) ==
    LET dx == (p.position[1] - q.position[1]) \div Scale
        dy == (p.position[2] - q.position[2]) \div Scale
        rr == (p.radius + q.radius) \div Scale
    IN  dx * dx + dy * dy < rr * rr

(***************************************************************************)
(* C24.  Particle.colides is true exactly when the distance between the    *)
(* centres is < the sum of the radii: two circles that just touch do not   *)
(* collide.  colidesWithArray is true exactly when colides is true for a   *)
(* particle of the array, and false for an empty array.                    *)
(***************************************************************************)
C24_Colides ==
    last.op = "colides" =>
        /\ \A j \in 1..Len(last.particles) :
              last.each[j] = Overlap(last.particle, last.particles[j])
        /\ last.any = (\E j \in 1..Len(last.particles) : last.each[j])
        /\ last.particles = <<>> => ~last.any

\* radii 10 and 40: a particle at 30 and 40 pixels just touches and does not
\* collide, the next of the array at 29 and 40 pixels does
C24_Witness ==
    /\ last.op = "colides"
    /\ last.particle.radius = Px(10)
    /\ Len(last.particles) = 2
    /\ last.particles[1].radius = Px(40)
    /\ last.particles[1].position = <<Px(530), Px(340)>>
    /\ last.particles[2].radius = Px(40)
    /\ last.particles[2].position = <<Px(529), Px(340)>>
    /\ last.each = <<FALSE, TRUE>>
    /\ last.any

\* mass * velocity on an axis and mass * |velocity|^2, for whole velocities
\* and for fractions
Momentum(p, axis) == p.mass * p.velocity[axis]
Energy(p) == p.mass * scalarProduct2D(p.velocity, p.velocity)
QMomentum(p, axis) == QMul(QInt(p.mass), p.velocity[axis])
QEnergy(p) ==
    QMul(QInt(p.mass), QAdd(QMul(p.velocity[1], p.velocity[1]),
                            QMul(p.velocity[2], p.velocity[2])))

C26_OneShotAnEvent ==
    \/ last.op = "keydown" /\ last.key = " "
    \/ last.op = "mousedown" /\ last.button = 0
    => Len(shots) <= last.shotsBefore + 1

(***************************************************************************)
(* C27.  On the victory and defeat screens the keyboard and mouse events   *)
(* change nothing of the game: a key or a button pressed there makes no    *)
(* shot (and so takes no id).                                              *)
(***************************************************************************)
C27_EndScreenAbsorbs ==
    (screen \in {"victory", "defeat"} /\ last.op \in {"keydown", "mousedown"}) =>
        Len(shots) = last.shotsBefore

(***************************************************************************)
(* A ball at the left wall: a game started with INITIAL_BALLS set to 1,    *)
(* the ball drawn at the left of the range and going left; the player      *)
(* holds the left key or not from the start and fires once, some frames    *)
(* into the game.                                                          *)
(***************************************************************************)
WallBalls ==
    {[at |-> <<Px(200), Px(299), -Px(3), -Px(1)>>, size |-> 3],
     [at |-> <<Px(200), Px(299), -Px(3), -Px(1)>>, size |-> 2]}
WallFireFrames == 10..16

WallStart ==
    /\ last.op = "constructor"
    /\ \E draw \in WallBalls : balls' = createBalls(1, <<draw>>, nextID)
    /\ keyboardListeners' = keyboardListeners + 1
    /\ screen' = "game"
    /\ playerCharacter' = PlayerCharacter(<<Px(50), GAME_HEIGHT - PLAYER_HEIGHT>>, "player",
                                          PLAYER_WIDTH, PLAYER_HEIGHT)
    /\ playerLives' = PLAYER_LIVES
    /\ nextID' = nextID + 1
    /\ shots' = <<>>
    /\ lastHit' = 0
    /\ pendingFrames' = pendingFrames + 1
    /\ last' = [op |-> "startMainGame"]
    /\ UNCHANGED <<mouseListeners, clock, invulnerabilityTime, moveLeft, moveRight,
                   mousePositionX, controlledByKeyboard, controlledByMouse, then,
                   timeSinceLastHit, blink, frames, played, oddDelays>>

\* a space keydown in one of the frames WallFireFrames, nothing in flight
WallFire ==
    /\ screen = "game"
    /\ keyboardListeners > 0
    /\ frames \in WallFireFrames
    /\ shots = <<>>
    /\ LET st == Fire([shots |-> shots, nextID |-> nextID], keyboardListeners)
       IN  /\ st.nextID <= MaxID
           /\ shots' = st.shots
           /\ nextID' = st.nextID
    /\ last' = [op |-> "keydown", key |-> " ", shotsBefore |-> Len(shots)]
    /\ UNCHANGED <<hostVars, playerLives, moveLeft, moveRight, mousePositionX,
                   controlledByKeyboard, controlledByMouse, then, lastHit,
                   timeSinceLastHit, blink, playerCharacter, balls, frames, played,
                   oddDelays>>

NextWall ==
    \/ WallStart
    \/ keydown("ArrowLeft")
    \/ WallFire
    \/ mainGameLoop

SpecWall == Init /\ [][NextWall]_vars

\* the ball lies inside the arena
InsideArena(ball) ==
    /\ ball.radius <= ball.position[1]
    /\ ball.position[1] <= GAME_WIDTH - ball.radius
    /\ ball.radius <= ball.position[2]
    /\ ball.position[2] <= GAME_HEIGHT - ball.radius

(***************************************************************************)
(* C28.  At the end of every frame, the balls of a break included, every   *)
(* ball lies inside the arena: radius <= position.x <= GAME_WIDTH - radius *)
(* and radius <= position.y <= GAME_HEIGHT - radius.                       *)
(***************************************************************************)
C28_BallsInside ==
    last.op = "mainGameLoop" => \A j \in 1..Len(balls) : InsideArena(balls[j])

\* the sum over the balls b of 2^size - 1: the hits it takes to clear them
RECURSIVE Potential(_)
Potential(b) == IF b = <<>> THEN 0 ELSE (2 ^ Head(b).size - 1) + Potential(Tail(b))

\* the sum over the balls b of 2^(size - 1): the balls of size 1 they can give
RECURSIVE Capacity(_)
Capacity(b) == IF b = <<>> THEN 0 ELSE 2 ^ (Head(b).size - 1) + Capacity(Tail(b))

\* a step of a game: a frame lowers the potential by the number of its hits
\* and does not raise the capacity; but for a new game no other step changes
\* the balls
PotentialStep ==
    /\ last'.op = "mainGameLoop" =>
          /\ Potential(balls') = Potential(balls) - Len(last'.hits)
          /\ Len(last'.hits) <= Potential(balls)
          /\ Capacity(balls') <= Capacity(balls)
    /\ last'.op \notin {"mainGameLoop", "startMainGame"} => balls' = balls

(***************************************************************************)
(* C29.  With the potential P the sum over the balls of 2^size - 1: every  *)
(* hit of a shot on a ball lowers P by exactly 1 and nothing else in a     *)
(* game changes P, so a game has at most as many hits as the P of its      *)
(* first balls; the number of balls is never above the sum of 2^(size - 1) *)
(* over the balls, which no step of a game raises; and when P is 0 there   *)
(* is no ball.                                                             *)
(***************************************************************************)
C29_Potential ==
    /\ [](/\ Len(balls) <= Capacity(balls)
          /\ Potential(balls) >= 0
          /\ Potential(balls) = 0 => balls = <<>>)
    /\ [][PotentialStep]_vars

\* a frame with a hit on the ball of size 3 among three balls of size 1: the
\* potential goes from 10 to 9 and there are 5 balls
C29_Witness ==
    /\ last.op = "mainGameLoop"
    /\ Len(last.hits) = 1
    /\ last.hits[1].size = 3
    /\ last.nBalls = INITIAL_BALLS
    /\ Len(balls) = INITIAL_BALLS + 1
    /\ Potential(balls) = 9

(***************************************************************************)
(* The balls of a new game: createBalls(quantity) with the sizes drawn by  *)
(* randomInteger(1, 4), then shots put on the oldest or the newest ball,   *)
(* each handled by the collision step of the frame.  last holds the        *)
(* quantity, the values of Math.random() and the nextID of the call.       *)
(***************************************************************************)
MaxCreateHits == 5      \* hits after createBalls
Quantities == 0..3

CreateStart ==
    /\ last.op = "constructor"
    /\ \E quantity \in Quantities :
          \E randoms \in [1..quantity -> Randoms] :
             LET draws == [i \in 1..quantity |->
                              [at |-> <<Px(200) + i * Px(150), Px(100), Px(1), -Px(1)>>,
                               size |-> randomInteger(1, 4, randoms[i])]]
             IN  /\ balls' = createBalls(quantity, draws, nextID)
                 /\ nextID' = nextID + quantity
                 /\ last' = [op |-> "createBalls", quantity |-> quantity,
                             randoms |-> randoms, nextID |-> nextID]
    /\ UNCHANGED <<hostVars, playerLives, moveLeft, moveRight, mousePositionX,
                   controlledByKeyboard, controlledByMouse, then, lastHit,
                   timeSinceLastHit, blink, playerCharacter, played, oddDelays,
                   shots, frames>>

CreateHit(j) ==
    /\ last.op \in {"createBalls", "hit"}
    /\ j \in 1..Len(balls)
    /\ frames < MaxCreateHits
    /\ LET shot == Shot(balls[j].position, SHOT_SPEED, SHOT_WIDTH, nextID)
           st == CollideShots([shots |-> <<shot>>, balls |-> balls, nextID |-> nextID + 1,
                               hits |-> <<>>, tested |-> <<>>], 1)
       IN  /\ shots' = st.shots
           /\ balls' = st.balls
           /\ nextID' = st.nextID
           /\ last' = [op |-> "hit", size |-> st.hits[1].size, before |-> Len(balls)]
    /\ frames' = frames + 1
    /\ UNCHANGED <<hostVars, playerLives, moveLeft, moveRight, mousePositionX,
                   controlledByKeyboard, controlledByMouse, then, lastHit,
                   timeSinceLastHit, blink, playerCharacter, played, oddDelays>>

NextCreate ==
    \/ CreateStart
    \/ \E j \in {1, Len(balls)} : CreateHit(j)

SpecCreate == Init /\ [][NextCreate]_vars

(***************************************************************************)
(* C31.  createBalls(quantity) gives exactly quantity balls with the ids   *)
(* nextID, nextID + 1, ... in order, and nextID advances by quantity; the  *)
(* size of each is randomInteger(1, 4), which is 1, 2 or 3 and never 4     *)
(* (each of the three is drawn); a break only makes balls of the size      *)
(* below, so every ball of a game has a size of 1, 2 or 3 and the radius   *)
(* 10, 20 or 40 of its size: there is never a ball of size 4.              *)
(***************************************************************************)
C31_SessionSizes ==
    /\ {randomInteger(1, 4, random) : random \in Randoms} = {1, 2, 3}
    /\ last.op = "createBalls" =>
          /\ Len(balls) = last.quantity
          /\ \A j \in 1..Len(balls) :
                /\ balls[j].id = last.nextID + j - 1
                /\ 3 * last.randoms[j] < RandomSteps => balls[j].size = 1
                /\ 3 * last.randoms[j] >= 2 * RandomSteps => balls[j].size = 3
          /\ nextID = last.nextID + last.quantity
    /\ last.op \in {"createBalls", "hit"} =>
          \A j \in 1..Len(balls) :
             /\ balls[j].size \in {1, 2, 3}
             /\ balls[j].radius = (CASE balls[j].size = 1 -> Px(10)
                                      [] balls[j].size = 2 -> Px(20)
                                      [] balls[j].size = 3 -> Px(40))
    /\ last.op = "hit" =>
          \A j \in (last.before)..Len(balls) : balls[j].size = last.size - 1

\* three balls made with the size 3, the largest drawn: the hit on the last
\* one leaves two balls of size 2 in its place, with the next two ids
C31_Witness ==
    /\ last.op = "hit"
    /\ last.size = 3
    /\ frames = 1
    /\ Len(balls) = 4
    /\ balls[1].size = 3
    /\ balls[2].size = 3
    /\ balls[3].size = 2
    /\ balls[4].size = 2
    /\ balls[3].id = 4
    /\ balls[4].id = 5

\* the indexes of the balls that collide with the player
BallsOnPlayer ==
    {j \in 1..Len(balls) : PlayerCharacter_colidesWithBall(playerCharacter, balls[j])}

(***************************************************************************)
(* C21.  In one frame playerLives goes down by 1 at most, however many     *)
(* balls overlap the player; it goes down only in a frame in which a ball  *)
(* collides with the player outside the invulnerability window (more than  *)
(* 2000 ms after the last loss), and that frame sets lastHit to the time   *)
(* of the frame; a frame that takes no life leaves lastHit.                *)
(***************************************************************************)
C21_OneLifeAFrame ==
    last.op = "mainGameLoop" =>
        /\ playerLives \in {last.lives, last.lives - 1}
        /\ playerLives = last.lives - 1 =>
              /\ last.updated
              /\ last.playerHit
              /\ BallsOnPlayer # {}
              /\ last.now - last.lastHit >= invulnerabilityTime
              /\ lastHit = last.now
              /\ timeSinceLastHit = 0
        /\ playerLives = last.lives => lastHit = last.lastHit
        /\ last.playerHit = (last.updated /\ BallsOnPlayer # {})

\* four balls on the player in one frame: one life is taken
C21_Witness ==
    /\ last.op = "mainGameLoop"
    /\ Cardinality(BallsOnPlayer) = INITIAL_BALLS
    /\ playerLives = last.lives - 1
    /\ lastHit = last.now

=============================================================================
